---- MODULE Spec2Model ----
(***************************************************************************)
(* Scuttle port scanner: the scan orchestrator (scanner/mod.rs), the TCP   *)
(* connect strategy (scanner/tcp.rs), the SYN strategy (scanner/syn.rs),   *)
(* the UDP strategy (scanner/udp.rs), the rate limiter                     *)
(* (scanner/rate_limiter.rs), the port types (types/port.rs, cli.rs) and   *)
(* the stored scan record (storage/json_store.rs).                         *)
(*                                                                         *)
(* The state machines of this module:                                      *)
(*   Spec     - run_scan: construction, the buffered stream of probe tasks *)
(*              under the semaphore, filtering, sorting and the report;    *)
(*   SpecTcp  - TcpConnectScanner::scan_port applied to one connection     *)
(*              outcome;                                                   *)
(*   SpecSyn  - SynScanner::scan_port, one received frame per step;        *)
(*   SpecUdp  - UdpScanner::scan_port, one await of probe_port per step;   *)
(*   SpecRate - a RateLimiter, its clones and the tasks that call wait and *)
(*              try_acquire on them, one clock tick per step of time;      *)
(*              SpecRateFair is the same machine under fair scheduling;    *)
(*   SpecTypes - the constructors of Port, PortSpec::to_ports and          *)
(*              parse_ports applied to one input;                          *)
(*   SpecStore - ScanRecord::new, finalize, and the record written to and  *)
(*              read back from JSON;                                       *)
(*   SpecBuf  - the buffered stream of scan_with_scanner with its probe    *)
(*              tasks counted, at the width of buffer_unordered.           *)
(***************************************************************************)
EXTENDS Integers, Sequences, FiniteSets, TLC

VARIABLES config, interfaces, pc, permits, task, results, progress, ret, report,
          tcpIn, tcpOut, synPort, synPc, synLast, synRxErr, synOut,
          udpPort, udpPc, udpAttempt, udpSent, udpLog, udpDelays, udpOut,
          rlState, rlArgs, rlQuota, rlCredit, rlCell, rlPc, rlNow, rlAcq, rlLast,
          tyIn, tyOut, recIn, recJson, recOut, recBack,
          bufPorts, bufConcurrency, bufQueued, bufWaiting, bufRunning, bufPermits

vars == <<config, interfaces, pc, permits, task, results, progress, ret, report,
          tcpIn, tcpOut, synPort, synPc, synLast, synRxErr, synOut,
          udpPort, udpPc, udpAttempt, udpSent, udpLog, udpDelays, udpOut,
          rlState, rlArgs, rlQuota, rlCredit, rlCell, rlPc, rlNow, rlAcq, rlLast,
          tyIn, tyOut, recIn, recJson, recOut, recBack,
          bufPorts, bufConcurrency, bufQueued, bufWaiting, bufRunning, bufPermits>>

scanVars == <<config, interfaces, pc, permits, task, results, progress, ret, report>>
tcpVars == <<tcpIn, tcpOut>>
synVars == <<synPort, synPc, synLast, synRxErr, synOut>>
udpVars == <<udpPort, udpPc, udpAttempt, udpSent, udpLog, udpDelays, udpOut>>
rlVars == <<rlState, rlArgs, rlQuota, rlCredit, rlCell, rlPc, rlNow, rlAcq, rlLast>>
typeVars == <<tyIn, tyOut>>
storeVars == <<recIn, recJson, recOut, recBack>>
bufVars == <<bufPorts, bufConcurrency, bufQueued, bufWaiting, bufRunning, bufPermits>>

(***************************************************************************)
(* Bounds of the model.                                                    *)
(***************************************************************************)
\* ports are drawn from 1..MaxPort
MaxPort == 2
\* number of comma-separated parts of a port specification
MaxSpecParts == 2
\* largest configured concurrency
MaxConcurrency == 2
\* largest measured response time in milliseconds
MaxResponseMs == 1
\* largest rate and largest burst a RateLimiter is constructed with
MaxRate == 2
MaxBurst == 1
\* number of tasks that may hold a RateLimiter
MaxCallers == 2
\* length of the observed stretch of time, in replenish intervals
MaxTicks == 3
\* largest number of results in a stored ScanRecord
MaxResults == 2
\* how far port count and concurrency go beyond the buffer of the stream
MaxOverflow == 1

PortUniverse == 1..MaxPort

\* Option<T>: None is the empty sequence, Some(x) the sequence <<x>>
None == <<>>
Some(x) == <<x>>

(***************************************************************************)
(* Generic sequence helpers.                                               *)
(***************************************************************************)
Range(s) == {s[i] : i \in 1..Len(s)}

RECURSIVE SeqFilterStatus(_, _)
\* the elements of s whose status is not st, in order
SeqFilterStatus(s, st) ==
    IF s = <<>> THEN <<>>
    ELSE IF Head(s).status # st
         THEN <<Head(s)>> \o SeqFilterStatus(Tail(s), st)
         ELSE SeqFilterStatus(Tail(s), st)

RECURSIVE CountStatus(_, _)
\* number of elements of s whose status is in sts
CountStatus(s, sts) ==
    IF s = <<>> THEN 0
    ELSE (IF Head(s).status \in sts THEN 1 ELSE 0) + CountStatus(Tail(s), sts)

RECURSIVE InsertU16(_, _)
\* x put into the ascending sequence s
InsertU16(x, s) ==
    IF s = <<>> THEN <<x>>
    ELSE IF x < Head(s) THEN <<x>> \o s
         ELSE <<Head(s)>> \o InsertU16(x, Tail(s))

RECURSIVE SortU16(_)
\* Vec<u16>::sort_unstable
SortU16(s) == IF s = <<>> THEN <<>> ELSE InsertU16(Head(s), SortU16(Tail(s)))

DedupSkipped(s) == s

RECURSIVE Dedup(_)
\* Vec::dedup: consecutive equal elements are collapsed into the first
Dedup(s) ==
    IF Len(s) < 2 THEN s
    ELSE IF s[1] = s[2] THEN Dedup(Tail(s))
         ELSE <<s[1]>> \o Dedup(Tail(s))

RECURSIVE ExpandParts(_)
\* the loop of parse_ports: a part <<lo, hi>> with lo = hi is a single
\* port (ports.push), any other part a range (ports.extend(start..=end))
ExpandParts(parts) ==
    IF parts = <<>> THEN <<>>
    ELSE LET lo == Head(parts)[1]
             hi == Head(parts)[2]
         IN  [i \in 1..(hi - lo + 1) |-> lo + i - 1] \o ExpandParts(Tail(parts))

\* parse_ports after its loop: sort, dedup
parse_ports(parts) == Dedup(SortU16(ExpandParts(parts)))

\* the parts parse_ports accepts: single ports and ranges with start <= end
SpecPart == {<<lo, hi>> : lo \in PortUniverse, hi \in PortUniverse} \ 
            {pr \in PortUniverse \X PortUniverse : pr[1] > pr[2]}

RawSpecs == UNION {[1..n -> SpecPart] : n \in 1..MaxSpecParts}

\* the port lists the command line hands to run_scan
PortLists == {parse_ports(raw) : raw \in RawSpecs}

RECURSIVE InsertByPort(_, _)
\* r put behind every element of the sorted sequence s whose port is <= r.port
InsertByPort(r, s) ==
    IF s = <<>> THEN <<r>>
    ELSE IF r.port < Head(s).port THEN <<r>> \o s
         ELSE <<Head(s)>> \o InsertByPort(r, Tail(s))

RECURSIVE SortByPortFrom(_, _)
SortByPortFrom(s, acc) ==
    IF s = <<>> THEN acc ELSE SortByPortFrom(Tail(s), InsertByPort(Head(s), acc))

SortSkipped(s) == s

\* filtered_results.sort_by_key(|r| r.port): a stable sort
sort_by_key_port(s) == SortByPortFrom(s, <<>>)

(***************************************************************************)
(* services.rs                                                             *)
(***************************************************************************)
PORT_SERVICES == [p \in {20, 21, 22, 23, 25, 53, 80} |->
    CASE p = 20 -> "ftp-data" [] p = 21 -> "ftp" [] p = 22 -> "ssh"
      [] p = 23 -> "telnet" [] p = 25 -> "smtp" [] p = 53 -> "dns"
      [] p = 80 -> "http"]

get_service_description(port) ==
    IF port \in DOMAIN PORT_SERVICES THEN PORT_SERVICES[port] ELSE "unknown"

(***************************************************************************)
(* I/O errors as the operating system reports them.  The strategies tell   *)
(* errors apart by the text of e.to_string().to_lowercase(), so an error   *)
(* is its errno together with the words of its lower-cased message:        *)
(* strerror on unix targets, FormatMessage on windows targets.             *)
(***************************************************************************)
IoErrors == {
    [errno |-> "ECONNREFUSED", os |-> "unix",
     msg |-> {"connection", "refused"}],
    [errno |-> "EHOSTUNREACH", os |-> "unix",
     msg |-> {"no", "route", "to", "host"}],
    [errno |-> "ENETUNREACH", os |-> "unix",
     msg |-> {"network", "is", "unreachable"}],
    [errno |-> "ETIMEDOUT", os |-> "unix",
     msg |-> {"connection", "timed", "out"}],
    [errno |-> "ECONNRESET", os |-> "unix",
     msg |-> {"connection", "reset", "by", "peer"}],
    [errno |-> "ECONNREFUSED", os |-> "windows",
     msg |-> {"no", "connection", "could", "be", "made", "because", "the",
              "target", "machine", "actively", "refused", "it"}],
    [errno |-> "EHOSTUNREACH", os |-> "windows",
     msg |-> {"a", "socket", "operation", "was", "attempted", "to", "an",
              "unreachable", "host"}],
    [errno |-> "ENETUNREACH", os |-> "windows",
     msg |-> {"a", "socket", "operation", "was", "attempted", "to", "an",
              "unreachable", "network"}] }

NoError == [errno |-> "none", os |-> "none", msg |-> {}]

\* str::contains on the lower-cased message
Contains(msg, word) == word \in msg

(***************************************************************************)
(* scanner/traits.rs: PortResult                                           *)
(***************************************************************************)
PortStatus == {"Open", "Closed", "Filtered", "OpenFiltered"}

\* PortResult::new
PortResultNew(port, status, service) ==
    [port |-> port, status |-> status, service |-> service,
     banner |-> None, response_time_ms |-> None]

with_banner(r, banner) == [r EXCEPT !.banner = banner]

with_response_time(r, time_ms) == [r EXCEPT !.response_time_ms = Some(time_ms)]

(***************************************************************************)
(* scanner/tcp.rs: TcpConnectScanner                                       *)
(***************************************************************************)
\* what timeout(self.timeout, TcpStream::connect(addr)) resolves to
ConnectOutcomes ==
    {[kind |-> "connected", err |-> NoError], [kind |-> "elapsed", err |-> NoError]}
    \cup {[kind |-> "io", err |-> e] : e \in IoErrors}

\* attempt_connect: "Stream" for Ok(stream), otherwise the ScanError variant
attempt_connect(outcome) ==
    IF outcome.kind = "connected" THEN "Stream"
    ELSE IF outcome.kind = "io"
         THEN IF Contains(outcome.err.msg, "refused") THEN "ConnectionRefused"
              ELSE IF Contains(outcome.err.msg, "unreachable")
                   THEN IF Contains(outcome.err.msg, "host")
                        THEN "HostUnreachable"
                        ELSE "NetworkUnreachable"
                   ELSE "ConnectionFailed"
         ELSE "Timeout"

TcpErrorStatusAmbiguousTimeout(e) ==
    CASE e = "ConnectionRefused" -> "Closed"
      [] e = "Timeout" -> "OpenFiltered"
      [] e \in {"HostUnreachable", "NetworkUnreachable"} -> "Filtered"
      [] OTHER -> "Closed"

\* the match on the error in TcpConnectScanner::scan_port
TcpErrorStatus(e) ==
    CASE e = "ConnectionRefused" -> "Closed"
      [] e = "Timeout" -> "Filtered"
      [] e \in {"HostUnreachable", "NetworkUnreachable"} -> "Filtered"
      [] OTHER -> "Closed"

\* TcpConnectScanner::scan_port; banner_read is what grab_banner_from_stream
\* returns on this stream, elapsed_ms what start.elapsed() measures
TcpScanPort(port, outcome, grab_banners, banner_read, elapsed_ms) ==
    LET service == get_service_description(port)
        conn == attempt_connect(outcome)
    IN  IF conn = "Stream"
        THEN with_response_time(
                 with_banner(PortResultNew(port, "Open", service),
                             IF grab_banners THEN banner_read ELSE None),
                 elapsed_ms)
        ELSE PortResultNew(port, TcpErrorStatus(conn), service)

\* banners a service may present, after sanitize_banner
BannerReads == {None, Some("SSH-2.0")}

ResponseTimes == 0..MaxResponseMs

(***************************************************************************)
(* scanner/udp.rs: UdpScanner                                              *)
(***************************************************************************)
\* UdpScanner::new: retries
UdpRetries == 2

\* outcome of UdpSocket::bind followed by socket.connect
UdpSetupOutcomes == {"ok", "bind_failed", "connect_failed"}

\* outcome of one attempt: socket.send fails, or timeout(recv) resolves to
\* n > 0 bytes, 0 bytes, an I/O error, or the timeout elapses
UdpAttemptOutcomes ==
    {[kind |-> k, err |-> NoError] : k \in {"send_failed", "data", "empty", "elapsed"}}
    \cup {[kind |-> "io", err |-> e] : e \in IoErrors}

RECURSIVE UdpAttempts(_, _)
\* the for loop of probe_port from attempt number `attempt` on
UdpAttempts(attempts, attempt) ==
    IF attempt >= UdpRetries THEN "OpenFiltered"
    ELSE LET o == attempts[attempt + 1]
         IN  CASE o.kind = "send_failed" -> "ConnectionFailed"
               [] o.kind = "data" -> "Open"
               [] o.kind = "io" /\ (Contains(o.err.msg, "refused")
                                    \/ Contains(o.err.msg, "unreachable")) -> "Closed"
               [] OTHER -> UdpAttempts(attempts, attempt + 1)

\* UdpScanner::probe_port: a PortStatus, or "ConnectionFailed" for Err
probe_port(setup, attempts) ==
    IF setup # "ok" THEN "ConnectionFailed" ELSE UdpAttempts(attempts, 0)

\* UdpScanner::scan_port
UdpScanPort(port, setup, attempts) ==
    LET r == probe_port(setup, attempts)
    IN  PortResultNew(port, IF r = "ConnectionFailed" THEN "Filtered" ELSE r,
                      get_service_description(port))

(***************************************************************************)
(* scanner/syn.rs: SynScanner                                              *)
(***************************************************************************)
\* byte sizes of the headers
ETHERNET_HEADER_SIZE == 14
IP_HEADER_SIZE == 20
TCP_HEADER_SIZE == 20

\* network interfaces of the host, as datalink::interfaces() lists them
IfLo == [name |-> "lo", loopback |-> TRUE, up |-> TRUE,
         ips |-> <<[v4 |-> TRUE, loopback |-> TRUE]>>]
IfEth0 == [name |-> "eth0", loopback |-> FALSE, up |-> TRUE,
           ips |-> <<[v4 |-> FALSE, loopback |-> FALSE],
                     [v4 |-> TRUE, loopback |-> FALSE]>>]
IfSit0 == [name |-> "sit0", loopback |-> FALSE, up |-> TRUE,
           ips |-> <<[v4 |-> FALSE, loopback |-> FALSE]>>]

Hosts == {<<IfLo, IfEth0>>, <<IfLo, IfSit0>>, <<IfLo>>}

InterfaceNames == {None, Some("eth0"), Some("sit0"), Some("wlan9")}

\* Iterator::find: the first of the indices `hits`, 0 if there is none
FindFirst(hits) ==
    IF hits = {} THEN 0 ELSE CHOOSE k \in hits : \A j \in hits : k <= j

find_interfaceFallback(ifs, name) ==
    LET ByName == {k \in 1..Len(ifs) : ifs[k].name = name[1]}
        Usable == {k \in 1..Len(ifs) :
                      /\ ~ifs[k].loopback
                      /\ ifs[k].up
                      /\ \E a \in 1..Len(ifs[k].ips) : ifs[k].ips[a].v4}
        k == IF name # None /\ ByName # {} THEN FindFirst(ByName) ELSE FindFirst(Usable)
    IN  IF k = 0 THEN [ok |-> FALSE, err |-> "InterfaceNotFound", iface |-> IfLo]
        ELSE [ok |-> TRUE, err |-> "", iface |-> ifs[k]]

\* find_interface: [ok, iface] or [ok, err]
find_interface(ifs, name) ==
    LET ByName == {k \in 1..Len(ifs) : ifs[k].name = name[1]}
        Usable == {k \in 1..Len(ifs) :
                      /\ ~ifs[k].loopback
                      /\ ifs[k].up
                      /\ \E a \in 1..Len(ifs[k].ips) : ifs[k].ips[a].v4}
        k == IF name # None THEN FindFirst(ByName) ELSE FindFirst(Usable)
    IN  IF k = 0 THEN [ok |-> FALSE, err |-> "InterfaceNotFound", iface |-> IfLo]
        ELSE [ok |-> TRUE, err |-> "", iface |-> ifs[k]]

\* get_interface_ipv4: whether the interface has a non-loopback IPv4 address
get_interface_ipv4(iface) ==
    FindFirst({a \in 1..Len(iface.ips) : iface.ips[a].v4 /\ ~iface.ips[a].loopback}) # 0

SynScannerNewAnyFamily(target, interface_name, ifs) ==
    LET f == find_interface(ifs, interface_name)
    IN  IF ~f.ok THEN f.err
        ELSE IF ~get_interface_ipv4(f.iface) THEN "InvalidConfig"
             ELSE "Ok"

\* SynScanner::new: "Ok" or the ScanError variant
SynScannerNew(target, interface_name, ifs) ==
    IF target = "v6" THEN "InvalidConfig"
    ELSE LET f == find_interface(ifs, interface_name)
         IN  IF ~f.ok THEN f.err
             ELSE IF ~get_interface_ipv4(f.iface) THEN "InvalidConfig"
                  ELSE "Ok"

\* build_syn_packet: every Mutable*Packet::new gets a buffer slice at least
\* as long as its header, so the frame is built
build_syn_packet ==
    LET total_size == ETHERNET_HEADER_SIZE + IP_HEADER_SIZE + TCP_HEADER_SIZE
    IN  IF /\ ETHERNET_HEADER_SIZE >= ETHERNET_HEADER_SIZE
           /\ total_size - ETHERNET_HEADER_SIZE >= IP_HEADER_SIZE
           /\ total_size - ETHERNET_HEADER_SIZE - IP_HEADER_SIZE >= TCP_HEADER_SIZE
        THEN "Ok" ELSE "InvalidPacket"

\* what datalink::channel returns
ChannelOutcomes == {
    [kind |-> "ethernet", msg |-> {}],
    [kind |-> "other", msg |-> {}],
    [kind |-> "err", msg |-> {"operation", "not", "permitted"}],
    [kind |-> "err", msg |-> {"permission", "denied"}],
    [kind |-> "err", msg |-> {"no", "such", "device"}] }

\* what tx.send_to returns: Some(Ok), None, Some(Err)
SendOutcomes == {"sent", "none", "err"}

TcpFlags == {"SYN", "ACK", "RST"}

\* a captured frame: its length in bytes, the IPv4 source and protocol, the
\* IPv4 header length in 32-bit words, and the source port and flags read
\* where that header length says the TCP header starts
FrameLengths == {40, 60, 94}
HeaderLengths == {5, 15}
Frames == [len : FrameLengths, src : {"target", "other"}, proto : {"tcp", "udp"},
           ihl : HeaderLengths, sport : PortUniverse, flags : SUBSET TcpFlags]

\* SynScanner::parse_response: None, Some(status), or "panic" when the slice
\* &frame[tcp_start..] starts behind the end of the frame
parse_response(frame, expected_port) ==
    IF frame.len < ETHERNET_HEADER_SIZE + IP_HEADER_SIZE + TCP_HEADER_SIZE THEN None
    ELSE IF frame.src # "target" THEN None
    ELSE IF frame.proto # "tcp" THEN None
    ELSE LET tcp_start == ETHERNET_HEADER_SIZE + frame.ihl * 4
         IN  IF tcp_start > frame.len THEN Some("panic")
             ELSE IF frame.len - tcp_start < TCP_HEADER_SIZE THEN None
             ELSE IF frame.sport # expected_port THEN None
             ELSE IF {"SYN", "ACK"} \subseteq frame.flags THEN Some("Open")
             ELSE IF "RST" \in frame.flags THEN Some("Closed")
             ELSE None

\* a frame that stands in the frame field of an event that carries none
NoFrame == [len |-> 40, src |-> "other", proto |-> "udp", ihl |-> 5,
            sport |-> 1, flags |-> {}]

SynDeadline == [kind |-> "deadline", frame |-> NoFrame, detail |-> ""]

\* what one pass of the polling loop meets: the loop condition
\* start.elapsed() < self.timeout is false ("deadline"), or rx.next()
\* returns a frame, or an error whose text holds "timed out" or does not
SynEvents ==
    {[kind |-> "frame", frame |-> f, detail |-> ""] : f \in Frames}
    \cup {[kind |-> "rx_err", frame |-> NoFrame, detail |-> d] :
             d \in {"timed out", "network is down"}}
    \cup {SynDeadline}

\* send_syn_and_wait up to the polling loop: "ok" or the ScanError variant
SynSendStage(chan, send) ==
    IF build_syn_packet # "Ok" THEN build_syn_packet
    ELSE IF chan.kind = "other" THEN "RawSocketError"
    ELSE IF chan.kind = "err"
         THEN IF \/ Contains(chan.msg, "permission")
                 \/ {"operation", "not", "permitted"} \subseteq chan.msg
              THEN "PermissionDenied"
              ELSE "RawSocketError"
    ELSE IF send # "sent" THEN "RawSocketError"
    ELSE "ok"

\* one pass of the polling loop of send_syn_and_wait: "continue", "panic",
\* or the status the function returns
SynPollStep(port, ev) ==
    CASE ev.kind = "deadline" -> "Filtered"
      [] ev.kind = "rx_err" ->
            IF ev.detail = "timed out" THEN "continue" ELSE "Filtered"
      [] ev.kind = "frame" ->
            LET r == parse_response(ev.frame, port)
            IN  IF r = None THEN "continue" ELSE r[1]

\* send_syn_and_wait seen from the pass of the loop that handles ev
send_syn_and_wait(port, chan, send, ev) ==
    LET stage == SynSendStage(chan, send)
    IN  IF stage # "ok" THEN stage ELSE SynPollStep(port, ev)

SynScanPortErrClosed(port, r) ==
    [port |-> port,
     status |-> IF r \in PortStatus THEN r ELSE "Closed",
     service |-> get_service_description(port),
     banner |-> None]

\* SynScanner::scan_port on the value r of send_syn_and_wait: Ok(status)
\* keeps the status, Err(_) gives Filtered
SynScanPort(port, r) ==
    [port |-> port,
     status |-> IF r \in PortStatus THEN r ELSE "Filtered",
     service |-> get_service_description(port),
     banner |-> None]

(***************************************************************************)
(* scanner/mod.rs: run_scan and scan_with_scanner                          *)
(***************************************************************************)
\* buffer_unordered(1000)
BUFFER_UNORDERED == 1000

DefaultHost == <<IfLo, IfEth0>>

Callers == 1..MaxCallers

NoArgs == [ctor |-> "none", rate |-> 0, burst |-> 0]
NoQuota == [rate |-> 0, burst |-> 0]
NoCall == [op |-> "none", caller |-> 0, ok |-> FALSE, tokens |-> 0]

\* no RateLimiter has been asked for
IdleRate ==
    /\ rlState = "idle" /\ rlArgs = NoArgs /\ rlQuota = NoQuota
    /\ rlCredit = [k \in Callers |-> 0]
    /\ rlCell = [c \in Callers |-> 0]
    /\ rlPc = [c \in Callers |-> "idle"]
    /\ rlNow = 0 /\ rlAcq = [t \in 0..(MaxTicks - 1) |-> 0]
    /\ rlLast = NoCall

\* UdpScanner::scan_port is not running
IdleUdp ==
    /\ udpPort = 0 /\ udpPc = "idle" /\ udpAttempt = 0 /\ udpSent = 0
    /\ udpLog = <<>> /\ udpDelays = <<>> /\ udpOut = None

\* no Port or PortSpec call is under way
IdleTypes == tyIn = None /\ tyOut = None

\* no ScanRecord is being built, serialized or parsed
IdleStore == recIn = None /\ recJson = None /\ recOut = None /\ recBack = None

\* no buffered stream of probe tasks is being counted
IdleBuf ==
    /\ bufPorts = 0 /\ bufConcurrency = 0
    /\ bufQueued = 0 /\ bufWaiting = 0 /\ bufRunning = 0 /\ bufPermits = 0

\* --rate / Profile.rate_limit: 0 is unlimited, 100 the limit of the built-in
\* stealth profile
RateLimits == {0, 100}

\* ScanConfig as the command line builds it, with the rate limit the command
\* line was given.  Fields a strategy never reads stay at their defaults:
\* grab_banners is read by Connect only, the target's address family and the
\* interface name decide only SynScanner::new.
Configs ==
    {c \in [scan_type : {"Connect", "Syn", "Udp"},
            ports : PortLists,
            concurrency : 0..MaxConcurrency,
            grab_banners : BOOLEAN,
            show_closed : BOOLEAN,
            verbose : BOOLEAN,
            target : {"v4", "v6"},
            interface : InterfaceNames,
            rate_limit : RateLimits] :
        /\ c.scan_type # "Connect" => ~c.grab_banners
        /\ c.scan_type # "Syn" => c.target = "v4" /\ c.interface = None}

NoProgress == [enabled |-> FALSE, pos |-> 0, msg |-> None]

EmptyReport == [ports_scanned |-> 0, open_ports |-> 0, closed_ports |-> 0,
                filtered_ports |-> 0, results |-> <<>>]

Indices == 1..Len(config.ports)

\* probe tasks the buffered stream holds: pulled from the port iterator and
\* not yet completed
InBuffer == {i \in Indices : task[i] \in {"waiting", "running"}}

\* probe tasks that hold a semaphore permit and are inside scanner(port)
InFlight == {i \in Indices : task[i] = "running"}

Init ==
    /\ config \in Configs
    /\ interfaces \in Hosts
    /\ config.scan_type # "Syn" => interfaces = DefaultHost
    /\ pc = "start"
    /\ permits = 0
    /\ task = [i \in 1..Len(config.ports) |-> "queued"]
    /\ results = <<>>
    /\ progress = NoProgress
    /\ ret = "None"
    /\ report = EmptyReport
    /\ tcpIn = None /\ tcpOut = None
    /\ synPort = 0 /\ synPc = "idle" /\ synLast = None /\ synRxErr = FALSE
    /\ synOut = None
    /\ IdleUdp
    /\ IdleRate
    /\ IdleTypes /\ IdleStore /\ IdleBuf

\* run_scan up to the call of scan_with_scanner: the progress bar, the
\* semaphore and the strategy; a failed SynScanner::new is returned with `?`
Construct ==
    /\ pc = "start"
    /\ progress' = [NoProgress EXCEPT !.enabled = config.verbose]
    /\ permits' = config.concurrency
    /\ LET made == IF config.scan_type = "Syn"
                   THEN SynScannerNew(config.target, config.interface, interfaces)
                   ELSE "Ok"
       IN  IF made = "Ok"
           THEN pc' = "scanning" /\ ret' = ret
           ELSE pc' = "returned" /\ ret' = made
    /\ UNCHANGED <<config, interfaces, task, results, report, tcpVars, synVars, udpVars, rlVars, typeVars, storeVars, bufVars>>

\* buffer_unordered pulls the next port from stream::iter(ports) while it
\* holds fewer than BUFFER_UNORDERED tasks; the task starts at sem.acquire()
Admit ==
    /\ pc = "scanning"
    /\ Cardinality(InBuffer) < BUFFER_UNORDERED
    /\ \E i \in Indices :
          /\ task[i] = "queued"
          /\ \A j \in Indices : j < i => task[j] # "queued"
          /\ task' = [task EXCEPT ![i] = "waiting"]
    /\ UNCHANGED <<config, interfaces, pc, permits, results, progress, ret, report,
                   tcpVars, synVars, udpVars, rlVars, typeVars, storeVars, bufVars>>

AcquireUnbounded(i) ==
    /\ pc = "scanning"
    /\ task[i] = "waiting"
    /\ task' = [task EXCEPT ![i] = "running"]
    /\ permits' = permits
    /\ UNCHANGED <<config, interfaces, pc, results, progress, ret, report,
                   tcpVars, synVars, udpVars, rlVars, typeVars, storeVars, bufVars>>

\* let _permit = sem.acquire().await.unwrap()
Acquire(i) ==
    /\ pc = "scanning"
    /\ task[i] = "waiting"
    /\ permits > 0
    /\ task' = [task EXCEPT ![i] = "running"]
    /\ permits' = permits - 1
    /\ UNCHANGED <<config, interfaces, pc, results, progress, ret, report,
                   tcpVars, synVars, udpVars, rlVars, typeVars, storeVars, bufVars>>

CompleteKeepsPermit(i, result) ==
    /\ progress' = IF progress.enabled
                   THEN [progress EXCEPT
                            !.pos = @ + 1,
                            !.msg = IF result.status = "Open"
                                    THEN Some(result.port) ELSE @]
                   ELSE progress
    /\ permits' = IF result.status = "Filtered" THEN permits ELSE permits + 1
    /\ task' = [task EXCEPT ![i] = "done"]
    /\ results' = Append(results, result)

CompleteCountsOpenOnly(i, result) ==
    /\ progress' = IF progress.enabled /\ result.status = "Open"
                   THEN [progress EXCEPT !.pos = @ + 1, !.msg = Some(result.port)]
                   ELSE progress
    /\ permits' = permits + 1
    /\ task' = [task EXCEPT ![i] = "done"]
    /\ results' = Append(results, result)

\* the rest of the probe task once scanner(port) has returned `result`: the
\* progress update, the permit dropped, the result yielded to collect()
Complete(i, result) ==
    /\ progress' = IF progress.enabled
                   THEN [progress EXCEPT
                            !.pos = @ + 1,
                            !.msg = IF result.status = "Open"
                                    THEN Some(result.port) ELSE @]
                   ELSE progress
    /\ permits' = permits + 1
    /\ task' = [task EXCEPT ![i] = "done"]
    /\ results' = Append(results, result)

\* scanner.scan_port(port).await with a TcpConnectScanner
ScanPortTcp(i) ==
    /\ pc = "scanning"
    /\ config.scan_type = "Connect"
    /\ task[i] = "running"
    /\ \E outcome \in ConnectOutcomes, banner_read \in BannerReads,
          elapsed_ms \in ResponseTimes :
          Complete(i, TcpScanPort(config.ports[i], outcome, config.grab_banners,
                                  banner_read, elapsed_ms))
    /\ UNCHANGED <<config, interfaces, pc, ret, report, tcpVars, synVars, udpVars, rlVars, typeVars, storeVars, bufVars>>

\* scanner.scan_port(port).await with a SynScanner: the call has no await
\* inside, so it runs to its end in one poll; a panic unwinds run_scan
ScanPortSyn(i) ==
    /\ pc = "scanning"
    /\ config.scan_type = "Syn"
    /\ task[i] = "running"
    /\ \E chan \in ChannelOutcomes, send \in SendOutcomes :
          \E ev \in IF SynSendStage(chan, send) = "ok" THEN SynEvents ELSE {SynDeadline} :
             LET r == send_syn_and_wait(config.ports[i], chan, send, ev)
             IN  /\ r # "continue"
                 /\ IF r = "panic"
                    THEN /\ pc' = "panicked"
                         /\ UNCHANGED <<progress, permits, task, results>>
                    ELSE /\ pc' = pc
                         /\ Complete(i, SynScanPort(config.ports[i], r))
    /\ UNCHANGED <<config, interfaces, ret, report, tcpVars, synVars, udpVars, rlVars, typeVars, storeVars, bufVars>>

\* scanner.scan_port(port).await with a UdpScanner
ScanPortUdp(i) ==
    /\ pc = "scanning"
    /\ config.scan_type = "Udp"
    /\ task[i] = "running"
    /\ \E setup \in UdpSetupOutcomes, attempts \in [1..UdpRetries -> UdpAttemptOutcomes] :
          Complete(i, UdpScanPort(config.ports[i], setup, attempts))
    /\ UNCHANGED <<config, interfaces, pc, ret, report, tcpVars, synVars, udpVars, rlVars, typeVars, storeVars, bufVars>>

FilterResultsDropFiltered(rs, show_closed) ==
    IF show_closed THEN rs ELSE SeqFilterStatus(SeqFilterStatus(rs, "Closed"), "Filtered")

\* the filter of run_scan: Closed entries are dropped unless show_closed
FilterResults(rs, show_closed) ==
    IF show_closed THEN rs ELSE SeqFilterStatus(rs, "Closed")

FinalizeCountsBeforeFilter ==
    /\ pc = "scanning"
    /\ \A i \in Indices : task[i] = "done"
    /\ LET filtered_results ==
               sort_by_key_port(FilterResults(results, config.show_closed))
       IN  report' = [ports_scanned |-> Len(config.ports),
                      open_ports |-> CountStatus(results, {"Open", "OpenFiltered"}),
                      closed_ports |-> CountStatus(results, {"Closed"}),
                      filtered_ports |-> CountStatus(results, {"Filtered"}),
                      results |-> filtered_results]
    /\ progress' = IF progress.enabled
                   THEN [progress EXCEPT !.msg = Some(0)]
                   ELSE progress
    /\ pc' = "returned"
    /\ ret' = "Ok"
    /\ UNCHANGED <<config, interfaces, permits, task, results, tcpVars, synVars, udpVars, rlVars, typeVars, storeVars, bufVars>>

\* run_scan once the stream is collected: filter, sort, count, Ok(ScanResults)
Finalize ==
    /\ pc = "scanning"
    /\ \A i \in Indices : task[i] = "done"
    /\ LET filtered_results ==
               sort_by_key_port(FilterResults(results, config.show_closed))
       IN  report' = [ports_scanned |-> Len(config.ports),
                      open_ports |-> CountStatus(filtered_results, {"Open", "OpenFiltered"}),
                      closed_ports |-> CountStatus(filtered_results, {"Closed"}),
                      filtered_ports |-> CountStatus(filtered_results, {"Filtered"}),
                      results |-> filtered_results]
    /\ progress' = IF progress.enabled
                   THEN [progress EXCEPT !.msg = Some(0)]
                   ELSE progress
    /\ pc' = "returned"
    /\ ret' = "Ok"
    /\ UNCHANGED <<config, interfaces, permits, task, results, tcpVars, synVars, udpVars, rlVars, typeVars, storeVars, bufVars>>

Next ==
    \/ Construct
    \/ Admit
    \/ \E i \in Indices : Acquire(i)
    \/ \E i \in Indices : ScanPortTcp(i)
    \/ \E i \in Indices : ScanPortSyn(i)
    \/ \E i \in Indices : ScanPortUdp(i)
    \/ Finalize

Spec == Init /\ [][Next]_vars

(***************************************************************************)
(* SpecTcp: TcpConnectScanner::scan_port applied to one connection         *)
(* outcome.  tcpIn is the call's input, tcpOut the PortResult it returns.  *)
(***************************************************************************)
TcpInputs == [port : PortUniverse, outcome : ConnectOutcomes,
              grab_banners : BOOLEAN, banner_read : BannerReads,
              elapsed_ms : ResponseTimes]

IdleScan ==
    /\ config = [scan_type |-> "Connect", ports |-> <<>>, concurrency |-> 0,
                 grab_banners |-> FALSE, show_closed |-> FALSE, verbose |-> FALSE,
                 target |-> "v4", interface |-> None, rate_limit |-> 0]
    /\ interfaces = DefaultHost
    /\ pc = "idle"
    /\ permits = 0
    /\ task = <<>>
    /\ results = <<>>
    /\ progress = NoProgress
    /\ ret = "None"
    /\ report = EmptyReport

InitTcp ==
    /\ IdleScan
    /\ tcpIn \in {Some(x) : x \in TcpInputs}
    /\ tcpOut = None
    /\ synPort = 0 /\ synPc = "idle" /\ synLast = None /\ synRxErr = FALSE
    /\ synOut = None
    /\ IdleUdp
    /\ IdleRate
    /\ IdleTypes /\ IdleStore /\ IdleBuf

TcpCall ==
    /\ tcpIn # None
    /\ tcpOut = None
    /\ tcpOut' = Some(TcpScanPort(tcpIn[1].port, tcpIn[1].outcome, tcpIn[1].grab_banners,
                                  tcpIn[1].banner_read, tcpIn[1].elapsed_ms))
    /\ UNCHANGED <<tcpIn, scanVars, synVars, udpVars, rlVars, typeVars, storeVars, bufVars>>

NextTcp == TcpCall

SpecTcp == InitTcp /\ [][NextTcp]_vars

(***************************************************************************)
(* SpecSyn: SynScanner::scan_port on one port, one pass of the polling     *)
(* loop per step.  synLast is what the last step met, synRxErr whether     *)
(* rx.next() has returned an error, synOut the PortResult returned.        *)
(***************************************************************************)
InitSyn ==
    /\ IdleScan
    /\ tcpIn = None /\ tcpOut = None
    /\ synPort \in PortUniverse
    /\ synPc = "start"
    /\ synLast = None
    /\ synRxErr = FALSE
    /\ synOut = None
    /\ IdleUdp
    /\ IdleRate
    /\ IdleTypes /\ IdleStore /\ IdleBuf

\* send_syn_and_wait up to the polling loop; an Err ends scan_port at once
SynSend ==
    /\ synPc = "start"
    /\ \E chan \in ChannelOutcomes, send \in SendOutcomes :
          LET stage == SynSendStage(chan, send)
          IN  /\ synLast' = Some([kind |-> "stage", frame |-> NoFrame, detail |-> stage])
              /\ IF stage = "ok"
                 THEN synPc' = "poll" /\ synOut' = synOut
                 ELSE synPc' = "done" /\ synOut' = Some(SynScanPort(synPort, stage))
    /\ UNCHANGED <<synPort, synRxErr, scanVars, tcpVars, udpVars, rlVars, typeVars, storeVars, bufVars>>

\* one pass of the polling loop
SynPoll ==
    /\ synPc = "poll"
    /\ \E ev \in SynEvents :
          LET r == SynPollStep(synPort, ev)
          IN  /\ synLast' = Some(ev)
              /\ synRxErr' = (synRxErr \/ ev.kind = "rx_err")
              /\ CASE r = "continue" -> synPc' = "poll" /\ synOut' = synOut
                   [] r = "panic" -> synPc' = "panicked" /\ synOut' = synOut
                   [] OTHER -> synPc' = "done" /\ synOut' = Some(SynScanPort(synPort, r))
    /\ UNCHANGED <<synPort, scanVars, tcpVars, udpVars, rlVars, typeVars, storeVars, bufVars>>

NextSyn == SynSend \/ SynPoll

SpecSyn == InitSyn /\ [][NextSyn]_vars

(***************************************************************************)
(* SpecUdp: UdpScanner::scan_port on one port, one await of probe_port per *)
(* step.  udpAttempt is the loop variable, udpSent the number of calls of  *)
(* socket.send, udpLog what each wait for a reply resolved to, udpDelays   *)
(* the sleeps in milliseconds, udpOut the PortResult returned.             *)
(***************************************************************************)
\* tokio::time::sleep(Duration::from_millis(100)) between attempts
UdpRetryDelayMs == 100

\* what timeout(self.timeout, socket.recv(&mut buf)) resolves to
UdpRecvOutcomes == {o \in UdpAttemptOutcomes : o.kind # "send_failed"}

\* the match on the reply of one attempt: the status returned, or "continue"
UdpRecvStatus(o) ==
    CASE o.kind = "data" -> "Open"
      [] o.kind = "io" /\ (Contains(o.err.msg, "refused")
                           \/ Contains(o.err.msg, "unreachable")) -> "Closed"
      [] OTHER -> "continue"

UdpResultErrClosed(port, r) ==
    PortResultNew(port, IF r = "ConnectionFailed" THEN "Closed" ELSE r,
                  get_service_description(port))

\* UdpScanner::scan_port on the value r of probe_port
UdpResult(port, r) ==
    PortResultNew(port, IF r = "ConnectionFailed" THEN "Filtered" ELSE r,
                  get_service_description(port))

InitUdp ==
    /\ IdleScan
    /\ tcpIn = None /\ tcpOut = None
    /\ synPort = 0 /\ synPc = "idle" /\ synLast = None /\ synRxErr = FALSE
    /\ synOut = None
    /\ udpPort \in PortUniverse
    /\ udpPc = "start"
    /\ udpAttempt = 0
    /\ udpSent = 0
    /\ udpLog = <<>>
    /\ udpDelays = <<>>
    /\ udpOut = None
    /\ IdleRate
    /\ IdleTypes /\ IdleStore /\ IdleBuf

\* UdpSocket::bind and socket.connect, then the entry of the for loop
UdpSetup ==
    /\ udpPc = "start"
    /\ \E setup \in UdpSetupOutcomes :
          IF setup # "ok"
          THEN udpPc' = "done" /\ udpOut' = Some(UdpResult(udpPort, "ConnectionFailed"))
          ELSE IF 0 < UdpRetries
               THEN udpPc' = "send" /\ udpOut' = udpOut
               ELSE udpPc' = "done" /\ udpOut' = Some(UdpResult(udpPort, "OpenFiltered"))
    /\ UNCHANGED <<udpPort, udpAttempt, udpSent, udpLog, udpDelays,
                   scanVars, tcpVars, synVars, rlVars, typeVars, storeVars, bufVars>>

\* socket.send(probe).await: an Err leaves probe_port with `?`
UdpSend ==
    /\ udpPc = "send"
    /\ udpSent' = udpSent + 1
    /\ \E sent \in BOOLEAN :
          IF sent
          THEN udpPc' = "recv" /\ udpOut' = udpOut
          ELSE udpPc' = "done" /\ udpOut' = Some(UdpResult(udpPort, "ConnectionFailed"))
    /\ UNCHANGED <<udpPort, udpAttempt, udpLog, udpDelays, scanVars, tcpVars, synVars, rlVars, typeVars, storeVars, bufVars>>

UdpRecvExhaustedFiltered ==
    /\ udpPc = "recv"
    /\ \E o \in UdpRecvOutcomes :
          LET st == UdpRecvStatus(o)
          IN  /\ udpLog' = Append(udpLog, o)
              /\ IF st # "continue"
                 THEN /\ udpPc' = "done"
                      /\ udpOut' = Some(UdpResult(udpPort, st))
                      /\ udpAttempt' = udpAttempt
                 ELSE IF udpAttempt < UdpRetries - 1
                      THEN udpPc' = "sleep" /\ udpOut' = udpOut /\ udpAttempt' = udpAttempt
                      ELSE /\ udpPc' = "done"
                           /\ udpAttempt' = udpAttempt + 1
                           /\ udpOut' = Some(UdpResult(udpPort, "Filtered"))
    /\ UNCHANGED <<udpPort, udpSent, udpDelays, scanVars, tcpVars, synVars, rlVars, typeVars, storeVars, bufVars>>

\* timeout(self.timeout, socket.recv(&mut buf)).await and the match on it;
\* after the last attempt the loop ends and Ok(OpenFiltered) is returned
UdpRecv ==
    /\ udpPc = "recv"
    /\ \E o \in UdpRecvOutcomes :
          LET st == UdpRecvStatus(o)
          IN  /\ udpLog' = Append(udpLog, o)
              /\ IF st # "continue"
                 THEN /\ udpPc' = "done"
                      /\ udpOut' = Some(UdpResult(udpPort, st))
                      /\ udpAttempt' = udpAttempt
                 ELSE IF udpAttempt < UdpRetries - 1
                      THEN udpPc' = "sleep" /\ udpOut' = udpOut /\ udpAttempt' = udpAttempt
                      ELSE /\ udpPc' = "done"
                           /\ udpAttempt' = udpAttempt + 1
                           /\ udpOut' = Some(UdpResult(udpPort, "OpenFiltered"))
    /\ UNCHANGED <<udpPort, udpSent, udpDelays, scanVars, tcpVars, synVars, rlVars, typeVars, storeVars, bufVars>>

\* tokio::time::sleep between two attempts, then the next pass of the loop
UdpSleep ==
    /\ udpPc = "sleep"
    /\ udpDelays' = Append(udpDelays, UdpRetryDelayMs)
    /\ udpAttempt' = udpAttempt + 1
    /\ udpPc' = "send"
    /\ UNCHANGED <<udpPort, udpSent, udpLog, udpOut, scanVars, tcpVars, synVars, rlVars, typeVars, storeVars, bufVars>>

NextUdp == UdpSetup \/ UdpSend \/ UdpRecv \/ UdpSleep

SpecUdp == InitUdp /\ [][NextUdp]_vars

(***************************************************************************)
(* SpecRate: scanner/rate_limiter.rs.  A RateLimiter is a handle on a      *)
(* governor limiter behind an Arc; the limiter is a token bucket that      *)
(* holds at most `burst` cells and regains one cell every 1/rate second.   *)
(* Time is counted in these replenish intervals, so a second is `rate`     *)
(* ticks.  rlCell[c] is the limiter task c holds a handle on (0: none),    *)
(* rlCredit[k] the cells limiter k holds, rlPc[c] whether c is suspended   *)
(* in wait, rlAcq[t] the number of acquisitions at tick t of the observed  *)
(* stretch, rlLast the last call and what it returned.                     *)
(***************************************************************************)
\* the value of a constructor whose expect() panicked
Panic == [ok |-> FALSE, rate |-> 0, burst |-> 0]

RateLimiterNewClamped(rate) ==
    IF rate = 0 THEN [ok |-> TRUE, rate |-> 1, burst |-> 1]
    ELSE [ok |-> TRUE, rate |-> rate, burst |-> rate]

\* RateLimiter::new: a panic when NonZeroU32::new(rate) is None, otherwise
\* the quota; Quota::per_second(rate) allows a burst of `rate` cells
RateLimiterNew(rate) ==
    IF rate = 0 THEN Panic ELSE [ok |-> TRUE, rate |-> rate, burst |-> rate]

\* RateLimiter::with_burst
RateLimiterWithBurst(rate, burst) ==
    IF rate = 0 THEN Panic
    ELSE IF burst = 0 THEN Panic
         ELSE [ok |-> TRUE, rate |-> rate, burst |-> burst]

\* the constructor calls a task may make
RateCtorCalls ==
    {[ctor |-> "new", rate |-> r, burst |-> 0] : r \in 0..MaxRate}
    \cup {[ctor |-> "with_burst", rate |-> r, burst |-> b] :
              r \in 0..MaxRate, b \in 0..MaxBurst}

\* the limiters some task holds a handle on
LiveCells == {rlCell[c] : c \in Callers} \ {0}

\* the tick at which the observed stretch of time starts
InitRateAt(start) ==
    /\ IdleScan
    /\ tcpIn = None /\ tcpOut = None
    /\ synPort = 0 /\ synPc = "idle" /\ synLast = None /\ synRxErr = FALSE
    /\ synOut = None
    /\ IdleUdp
    /\ rlState = "new" /\ rlArgs = NoArgs /\ rlQuota = NoQuota
    /\ rlCredit = [k \in Callers |-> 0]
    /\ rlCell = [c \in Callers |-> 0]
    /\ rlPc = [c \in Callers |-> "idle"]
    /\ rlNow = start /\ rlAcq = [t \in 0..(MaxTicks - 1) |-> 0]
    /\ rlLast = NoCall
    /\ IdleTypes /\ IdleStore /\ IdleBuf

InitRate == InitRateAt(0)

\* RateLimiter::new or RateLimiter::with_burst called by task 1: a panic, or
\* a limiter whose bucket is full
RlConstruct ==
    /\ rlState = "new"
    /\ \E call \in RateCtorCalls :
          LET q == IF call.ctor = "new" THEN RateLimiterNew(call.rate)
                   ELSE RateLimiterWithBurst(call.rate, call.burst)
          IN  /\ rlArgs' = call
              /\ IF ~q.ok
                 THEN /\ rlState' = "panicked"
                      /\ UNCHANGED <<rlQuota, rlCredit, rlCell, rlLast>>
                 ELSE /\ rlState' = "ready"
                      /\ rlQuota' = [rate |-> q.rate, burst |-> q.burst]
                      /\ rlCredit' = [rlCredit EXCEPT ![1] = q.burst]
                      /\ rlCell' = [rlCell EXCEPT ![1] = 1]
                      /\ rlLast' = [NoCall EXCEPT !.op = "new", !.caller = 1]
    /\ UNCHANGED <<rlPc, rlNow, rlAcq, scanVars, tcpVars, synVars, udpVars, typeVars, storeVars, bufVars>>

RlCloneFresh(c, d) ==
    /\ rlState = "ready"
    /\ rlCell[c] # 0 /\ rlPc[c] = "idle"
    /\ rlCell[d] = 0
    /\ rlCell' = [rlCell EXCEPT ![d] = d]
    /\ rlCredit' = [rlCredit EXCEPT ![d] = rlQuota.burst]
    /\ UNCHANGED <<rlState, rlArgs, rlQuota, rlPc, rlNow, rlAcq, rlLast,
                   scanVars, tcpVars, synVars, udpVars, typeVars, storeVars, bufVars>>

\* Clone for RateLimiter: task c clones its handle for task d; Arc::clone
\* makes the new handle point at the same limiter
RlClone(c, d) ==
    /\ rlState = "ready"
    /\ rlCell[c] # 0 /\ rlPc[c] = "idle"
    /\ rlCell[d] = 0
    /\ rlCell' = [rlCell EXCEPT ![d] = rlCell[c]]
    /\ UNCHANGED <<rlState, rlArgs, rlQuota, rlCredit, rlPc, rlNow, rlAcq, rlLast,
                   scanVars, tcpVars, synVars, udpVars, typeVars, storeVars, bufVars>>

\* task c drops its handle
RlDrop(c) ==
    /\ rlState = "ready"
    /\ rlCell[c] # 0 /\ rlPc[c] = "idle"
    /\ rlCell' = [rlCell EXCEPT ![c] = 0]
    /\ UNCHANGED <<rlState, rlArgs, rlQuota, rlCredit, rlPc, rlNow, rlAcq, rlLast,
                   scanVars, tcpVars, synVars, udpVars, typeVars, storeVars, bufVars>>

\* one replenish interval passes: every limiter regains a cell up to its
\* burst; the observed stretch ends at tick MaxTicks
RlTick ==
    /\ rlState = "ready"
    /\ rlNow' = IF rlNow < MaxTicks THEN rlNow + 1 ELSE rlNow
    /\ rlCredit' = [k \in Callers |->
                       IF k \in LiveCells /\ rlCredit[k] < rlQuota.burst
                       THEN rlCredit[k] + 1 ELSE rlCredit[k]]
    /\ UNCHANGED <<rlState, rlArgs, rlQuota, rlCell, rlPc, rlAcq, rlLast,
                   scanVars, tcpVars, synVars, udpVars, typeVars, storeVars, bufVars>>

\* the log of acquisitions after one more at the present tick
Logged == IF rlNow < MaxTicks THEN [rlAcq EXCEPT ![rlNow] = @ + 1] ELSE rlAcq

RlTryAcquireKeepsToken(c) ==
    /\ rlState = "ready"
    /\ rlCell[c] # 0 /\ rlPc[c] = "idle"
    /\ LET k == rlCell[c]
           ok == rlCredit[k] >= 1
       IN  /\ rlLast' = [op |-> "try_acquire", caller |-> c, ok |-> ok,
                         tokens |-> rlCredit[k]]
           /\ rlCredit' = rlCredit
           /\ rlAcq' = IF ok THEN Logged ELSE rlAcq
    /\ UNCHANGED <<rlState, rlArgs, rlQuota, rlCell, rlPc, rlNow,
                   scanVars, tcpVars, synVars, udpVars, typeVars, storeVars, bufVars>>

\* RateLimiter::try_acquire: self.limiter.check().is_ok()
RlTryAcquire(c) ==
    /\ rlState = "ready"
    /\ rlCell[c] # 0 /\ rlPc[c] = "idle"
    /\ LET k == rlCell[c]
           ok == rlCredit[k] >= 1
       IN  /\ rlLast' = [op |-> "try_acquire", caller |-> c, ok |-> ok,
                         tokens |-> rlCredit[k]]
           /\ rlCredit' = IF ok THEN [rlCredit EXCEPT ![k] = @ - 1] ELSE rlCredit
           /\ rlAcq' = IF ok THEN Logged ELSE rlAcq
    /\ UNCHANGED <<rlState, rlArgs, rlQuota, rlCell, rlPc, rlNow,
                   scanVars, tcpVars, synVars, udpVars, typeVars, storeVars, bufVars>>

\* RateLimiter::wait, first poll of until_ready: a cell is taken at once, or
\* the task sleeps until the limiter expects the next cell
RlWaitCall(c) ==
    /\ rlState = "ready"
    /\ rlCell[c] # 0 /\ rlPc[c] = "idle"
    /\ LET k == rlCell[c]
           ok == rlCredit[k] >= 1
       IN  /\ rlLast' = [op |-> "wait", caller |-> c, ok |-> ok, tokens |-> rlCredit[k]]
           /\ rlCredit' = IF ok THEN [rlCredit EXCEPT ![k] = @ - 1] ELSE rlCredit
           /\ rlAcq' = IF ok THEN Logged ELSE rlAcq
           /\ rlPc' = IF ok THEN rlPc ELSE [rlPc EXCEPT ![c] = "waiting"]
    /\ UNCHANGED <<rlState, rlArgs, rlQuota, rlCell, rlNow,
                   scanVars, tcpVars, synVars, udpVars, typeVars, storeVars, bufVars>>

RlWaitReturnEarly(c) ==
    /\ rlState = "ready"
    /\ rlPc[c] = "waiting"
    /\ LET k == rlCell[c]
       IN  /\ rlLast' = [op |-> "wait", caller |-> c, ok |-> TRUE, tokens |-> rlCredit[k]]
           /\ rlCredit' = IF rlCredit[k] >= 1
                           THEN [rlCredit EXCEPT ![k] = @ - 1] ELSE rlCredit
           /\ rlAcq' = Logged
           /\ rlPc' = [rlPc EXCEPT ![c] = "idle"]
    /\ UNCHANGED <<rlState, rlArgs, rlQuota, rlCell, rlNow,
                   scanVars, tcpVars, synVars, udpVars, typeVars, storeVars, bufVars>>

\* RateLimiter::wait, a later poll of until_ready that finds a cell: the task
\* woke, check() succeeded, wait returns.  A poll that finds none changes
\* nothing: the task sleeps again.
RlWaitReturn(c) ==
    /\ rlState = "ready"
    /\ rlPc[c] = "waiting"
    /\ LET k == rlCell[c]
       IN  /\ rlCredit[k] >= 1
           /\ rlLast' = [op |-> "wait", caller |-> c, ok |-> TRUE, tokens |-> rlCredit[k]]
           /\ rlCredit' = [rlCredit EXCEPT ![k] = @ - 1]
           /\ rlAcq' = Logged
           /\ rlPc' = [rlPc EXCEPT ![c] = "idle"]
    /\ UNCHANGED <<rlState, rlArgs, rlQuota, rlCell, rlNow,
                   scanVars, tcpVars, synVars, udpVars, typeVars, storeVars, bufVars>>

NextRate ==
    \/ RlConstruct
    \/ \E c \in Callers, d \in Callers : RlClone(c, d)
    \/ \E c \in Callers : RlDrop(c)
    \/ RlTick
    \/ \E c \in Callers : RlTryAcquire(c)
    \/ \E c \in Callers : RlWaitCall(c)
    \/ \E c \in Callers : RlWaitReturn(c)

SpecRate == InitRate /\ [][NextRate]_vars

\* the same machine once the observed stretch is over, under the scheduling
\* of the runtime: time passes, and a task whose wait can return for good
\* is polled
InitRateFair == InitRateAt(MaxTicks)

SpecRateFair ==
    /\ InitRateFair
    /\ [][NextRate]_vars
    /\ WF_vars(RlTick)
    /\ \A c \in Callers : WF_vars(RlWaitReturn(c))

(***************************************************************************)
(* SpecTypes: types/port.rs and parse_ports of cli.rs as pure calls.  tyIn *)
(* is the call (which function, its u16 or JSON number, or the ranges of a *)
(* port specification), tyOut what it returned: for a Port call whether a  *)
(* Port came back and the number it holds, for a specification the port    *)
(* list and the count, and the value last read from the Port.              *)
(***************************************************************************)
\* Port::MIN, Port::MAX
PORT_MIN == 1
PORT_MAX == 65535

\* the u16 values tried: the low end up to MaxPort, and u16::MAX
U16Values == (0..MaxPort) \cup {PORT_MAX}

\* the JSON numbers tried for deserialization: these, and one too large
\* for a u16
JsonNumbers == U16Values \cup {PORT_MAX + 1}

\* no Port: None of Port::new, Err of try_from and of deserialization
NoPort == [ok |-> FALSE, value |-> 0]

\* Port::new
PortNew(port) ==
    IF port >= PORT_MIN /\ port <= PORT_MAX
    THEN [ok |-> TRUE, value |-> port] ELSE NoPort

\* Port::new_unchecked
PortNewUnchecked(port) == [ok |-> TRUE, value |-> port]

\* TryFrom<u16> for Port: Self::new(value).ok_or(OutOfRange)
PortTryFrom(value) == PortNew(value)

\* the derived Deserialize of the #[serde(transparent)] struct Port(u16):
\* the number is read as a u16 and wrapped
PortDeserialize(n) ==
    IF n >= 0 /\ n <= PORT_MAX THEN [ok |-> TRUE, value |-> n] ELSE NoPort

PortOps == {"new", "new_unchecked", "try_from", "deserialize"}

\* the methods that take a Port: as_u16, is_privileged, is_ephemeral
PortReads == {"as_u16", "is_privileged", "is_ephemeral"}

\* what the method `m` returns on a Port holding v
PortRead(m, v) ==
    CASE m = "as_u16" -> v
      [] m = "is_privileged" -> IF v < 1024 THEN 1 ELSE 0
      [] m = "is_ephemeral" -> IF v >= 49152 THEN 1 ELSE 0

\* PortRange values: PortRange::new(start, end) with start <= end, and
\* PortRange::single(port) as the range from port to port
PortRanges == {<<lo, hi>> : lo \in PortUniverse, hi \in PortUniverse} \
              {pr \in PortUniverse \X PortUniverse : pr[1] > pr[2]}

\* the ranges of a PortSpec after its add_range and add_port calls
PortSpecs == UNION {[1..n -> PortRanges] : n \in 0..MaxSpecParts}

RECURSIVE IterRanges(_)
\* self.ranges.iter().flat_map(|r| r.iter()): start..=end of every range
IterRanges(ranges) ==
    IF ranges = <<>> THEN <<>>
    ELSE LET start == Head(ranges)[1]
             end == Head(ranges)[2]
         IN  [i \in 1..(end - start + 1) |-> start + i - 1] \o IterRanges(Tail(ranges))

to_portsUnsorted(ranges) == Dedup(IterRanges(ranges))

\* PortSpec::to_ports: collect, sort_unstable, dedup
to_ports(ranges) == Dedup(SortU16(IterRanges(ranges)))

\* PortSpec::count
count(ranges) == Len(to_ports(ranges))

\* the parts of the strings parse_ports accepts: u16 numbers and ranges
\* start-end with start <= end
ParsedParts == {<<lo, hi>> : lo \in 0..MaxPort, hi \in 0..MaxPort} \
               {pr \in (0..MaxPort) \X (0..MaxPort) : pr[1] > pr[2]}

ParsedSpecs == UNION {[1..n -> ParsedParts] : n \in 1..MaxSpecParts}

NoTypeOut == [ok |-> FALSE, value |-> 0, ports |-> <<>>, count |-> 0, read |-> None]

TypeCalls ==
    {[op |-> o, arg |-> v, parts |-> <<>>] : o \in PortOps \ {"deserialize"}, v \in U16Values}
    \cup {[op |-> "deserialize", arg |-> n, parts |-> <<>>] : n \in JsonNumbers}
    \cup {[op |-> "to_ports", arg |-> 0, parts |-> s] : s \in PortSpecs}
    \cup {[op |-> "parse_ports", arg |-> 0, parts |-> s] : s \in ParsedSpecs}

InitTypes ==
    /\ IdleScan
    /\ tcpIn = None /\ tcpOut = None
    /\ synPort = 0 /\ synPc = "idle" /\ synLast = None /\ synRxErr = FALSE
    /\ synOut = None
    /\ IdleUdp
    /\ IdleRate
    /\ tyIn \in {Some(c) : c \in TypeCalls}
    /\ tyOut = None
    /\ IdleStore /\ IdleBuf

\* a constructor or conversion of Port is called
PortCall ==
    /\ tyIn # None /\ tyOut = None
    /\ tyIn[1].op \in PortOps
    /\ LET v == tyIn[1].arg
           p == CASE tyIn[1].op = "new" -> PortNew(v)
                  [] tyIn[1].op = "new_unchecked" -> PortNewUnchecked(v)
                  [] tyIn[1].op = "try_from" -> PortTryFrom(v)
                  [] tyIn[1].op = "deserialize" -> PortDeserialize(v)
       IN  tyOut' = Some([NoTypeOut EXCEPT !.ok = p.ok, !.value = p.value])
    /\ UNCHANGED <<tyIn, scanVars, tcpVars, synVars, udpVars, rlVars, storeVars, bufVars>>

\* a method is called on the Port obtained; Port is Copy and every method
\* takes self by value
PortUse ==
    /\ tyIn # None /\ tyOut # None
    /\ tyIn[1].op \in PortOps
    /\ tyOut[1].ok
    /\ \E m \in PortReads :
          tyOut' = Some([tyOut[1] EXCEPT !.read = Some(<<m, PortRead(m, tyOut[1].value)>>)])
    /\ UNCHANGED <<tyIn, scanVars, tcpVars, synVars, udpVars, rlVars, storeVars, bufVars>>

\* PortSpec::to_ports and PortSpec::count on a specification built with
\* add_range and add_port
PortSpecCall ==
    /\ tyIn # None /\ tyOut = None
    /\ tyIn[1].op = "to_ports"
    /\ tyOut' = Some([NoTypeOut EXCEPT !.ok = TRUE,
                                       !.ports = to_ports(tyIn[1].parts),
                                       !.count = count(tyIn[1].parts)])
    /\ UNCHANGED <<tyIn, scanVars, tcpVars, synVars, udpVars, rlVars, storeVars, bufVars>>

\* parse_ports on an accepted string
ParsePortsCall ==
    /\ tyIn # None /\ tyOut = None
    /\ tyIn[1].op = "parse_ports"
    /\ LET ports == parse_ports(tyIn[1].parts)
       IN  tyOut' = Some([NoTypeOut EXCEPT !.ok = TRUE, !.ports = ports,
                                           !.count = Len(ports)])
    /\ UNCHANGED <<tyIn, scanVars, tcpVars, synVars, udpVars, rlVars, storeVars, bufVars>>

NextTypes == PortCall \/ PortUse \/ PortSpecCall \/ ParsePortsCall

SpecTypes == InitTypes /\ [][NextTypes]_vars

(***************************************************************************)
(* SpecStore: storage/json_store.rs.  recIn is the target, the results and *)
(* the duration a scan hands over, recOut the ScanRecord that              *)
(* ScanRecord::new(..).finalize(..) makes of them, recJson the JSON value  *)
(* serde writes for it and recBack what serde reads back from that value.  *)
(* A JSON object is the set of its keys with the value under each key; the *)
(* id and the two timestamps of a ScanRecord are left out.                 *)
(***************************************************************************)
\* the PortResult values a scan yields: a bare status, or an open port with
\* its response time and perhaps a banner
StoredResults ==
    {PortResultNew(p, st, get_service_description(p)) : p \in PortUniverse, st \in PortStatus}
    \cup {with_response_time(
              with_banner(PortResultNew(p, "Open", get_service_description(p)), b), t) :
             p \in PortUniverse, b \in BannerReads, t \in ResponseTimes}

ResultLists == UNION {[1..n -> StoredResults] : n \in 0..MaxResults}

\* duration_ms values: none measured, and the 1500 of test_scan_record_finalize
DurationsMs == {0, 1500}

StoreInputs == [target : {"example.com"}, results : ResultLists, duration_ms : DurationsMs]

\* ScanRecord::new
ScanRecordNew(target) ==
    [target |-> target, ports_scanned |-> 0, open_ports |-> 0, closed_ports |-> 0,
     filtered_ports |-> 0, duration_ms |-> 0, results |-> <<>>]

finalizeOpenOnly(self, rs, duration_ms) ==
    [self EXCEPT !.duration_ms = duration_ms,
                 !.ports_scanned = Len(rs),
                 !.open_ports = @ + CountStatus(rs, {"Open"}),
                 !.closed_ports = @ + CountStatus(rs, {"Closed"}),
                 !.filtered_ports = @ + CountStatus(rs, {"Filtered"}),
                 !.results = rs]

\* ScanRecord::finalize: the loop adds one to the counter of each result's
\* status
finalize(self, rs, duration_ms) ==
    [self EXCEPT !.duration_ms = duration_ms,
                 !.ports_scanned = Len(rs),
                 !.open_ports = @ + CountStatus(rs, {"Open", "OpenFiltered"}),
                 !.closed_ports = @ + CountStatus(rs, {"Closed"}),
                 !.filtered_ports = @ + CountStatus(rs, {"Filtered"}),
                 !.results = rs]

PortStatusSerializeLowercase(st) ==
    CASE st = "Open" -> "open"
      [] st = "Closed" -> "closed"
      [] st = "Filtered" -> "filtered"
      [] st = "OpenFiltered" -> "openfiltered"

\* Serialize for PortStatus: rename_all = "lowercase", OpenFiltered renamed
PortStatusSerialize(st) ==
    CASE st = "Open" -> "open"
      [] st = "Closed" -> "closed"
      [] st = "Filtered" -> "filtered"
      [] st = "OpenFiltered" -> "open|filtered"

\* Deserialize for PortStatus: the variant of that name, or an error (None)
PortStatusDeserialize(s) ==
    CASE s = "open" -> Some("Open")
      [] s = "closed" -> Some("Closed")
      [] s = "filtered" -> Some("Filtered")
      [] s = "open|filtered" -> Some("OpenFiltered")
      [] OTHER -> None

\* Serialize for PortResult: banner and response_time_ms are skipped when
\* they are None
PortResultSerialize(r) ==
    [keys |-> {"port", "status", "service"}
              \cup (IF r.banner = None THEN {} ELSE {"banner"})
              \cup (IF r.response_time_ms = None THEN {} ELSE {"response_time_ms"}),
     port |-> r.port,
     status |-> PortStatusSerialize(r.status),
     service |-> r.service,
     banner |-> IF r.banner = None THEN "" ELSE r.banner[1],
     response_time_ms |-> IF r.response_time_ms = None THEN 0 ELSE r.response_time_ms[1]]

\* Deserialize for PortResult: port, status and service must be there, an
\* Option field that is missing is None
PortResultDeserialize(j) ==
    LET st == PortStatusDeserialize(j.status)
    IN  IF {"port", "status", "service"} \subseteq j.keys /\ st # None
           /\ PortDeserialize(j.port).ok
        THEN [ok |-> TRUE,
              value |-> [port |-> PortDeserialize(j.port).value,
                         status |-> st[1],
                         service |-> j.service,
                         banner |-> IF "banner" \in j.keys THEN Some(j.banner) ELSE None,
                         response_time_ms |->
                             IF "response_time_ms" \in j.keys
                             THEN Some(j.response_time_ms) ELSE None]]
        ELSE [ok |-> FALSE, value |-> PortResultNew(1, "Closed", "")]

\* Serialize for ScanRecord
ScanRecordSerialize(rec) ==
    [target |-> rec.target,
     ports_scanned |-> rec.ports_scanned,
     open_ports |-> rec.open_ports,
     closed_ports |-> rec.closed_ports,
     filtered_ports |-> rec.filtered_ports,
     duration_ms |-> rec.duration_ms,
     results |-> [k \in 1..Len(rec.results) |-> PortResultSerialize(rec.results[k])]]

\* Deserialize for ScanRecord: an error when a result cannot be read
ScanRecordDeserialize(j) ==
    IF \A k \in 1..Len(j.results) : PortResultDeserialize(j.results[k]).ok
    THEN [ok |-> TRUE,
          rec |-> [target |-> j.target,
                   ports_scanned |-> j.ports_scanned,
                   open_ports |-> j.open_ports,
                   closed_ports |-> j.closed_ports,
                   filtered_ports |-> j.filtered_ports,
                   duration_ms |-> j.duration_ms,
                   results |-> [k \in 1..Len(j.results) |->
                                   PortResultDeserialize(j.results[k]).value]]]
    ELSE [ok |-> FALSE, rec |-> ScanRecordNew("")]

InitStore ==
    /\ IdleScan
    /\ tcpIn = None /\ tcpOut = None
    /\ synPort = 0 /\ synPc = "idle" /\ synLast = None /\ synRxErr = FALSE
    /\ synOut = None
    /\ IdleUdp
    /\ IdleRate
    /\ IdleTypes
    /\ recIn \in {Some(x) : x \in StoreInputs}
    /\ recJson = None /\ recOut = None /\ recBack = None
    /\ IdleBuf

\* ScanRecord::new(target, ip, scan_type).finalize(results, duration_ms)
StoreFinalize ==
    /\ recIn # None /\ recOut = None
    /\ recOut' = Some(finalize(ScanRecordNew(recIn[1].target), recIn[1].results,
                               recIn[1].duration_ms))
    /\ UNCHANGED <<recIn, recJson, recBack, scanVars, tcpVars, synVars, udpVars, rlVars,
                   typeVars, bufVars>>

\* serde_json::to_string_pretty(record), as ScanStore::save calls it
StoreSerialize ==
    /\ recOut # None /\ recJson = None
    /\ recJson' = Some(ScanRecordSerialize(recOut[1]))
    /\ UNCHANGED <<recIn, recOut, recBack, scanVars, tcpVars, synVars, udpVars, rlVars,
                   typeVars, bufVars>>

\* serde_json::from_str(&content), as ScanStore::load calls it
StoreDeserialize ==
    /\ recJson # None /\ recBack = None
    /\ recBack' = Some(ScanRecordDeserialize(recJson[1]))
    /\ UNCHANGED <<recIn, recJson, recOut, scanVars, tcpVars, synVars, udpVars, rlVars,
                   typeVars, bufVars>>

NextStore == StoreFinalize \/ StoreSerialize \/ StoreDeserialize

SpecStore == InitStore /\ [][NextStore]_vars

(***************************************************************************)
(* SpecBuf: scan_with_scanner with its probe tasks counted, not told       *)
(* apart, so that port lists and concurrency settings beyond the 1000 of   *)
(* buffer_unordered can be run.  bufQueued ports are still in the          *)
(* iterator, bufWaiting tasks are in the buffer at sem.acquire(),          *)
(* bufRunning tasks are in the buffer inside scanner(port), bufPermits     *)
(* permits are left in the semaphore.                                      *)
(***************************************************************************)
\* the concurrency settings tried: one below the buffer size, and those up
\* to MaxOverflow above it
BufConcurrencies == {1} \cup {BUFFER_UNORDERED + k : k \in 1..MaxOverflow}

\* the number of ports: more than the buffer holds
BufPortCounts == {BUFFER_UNORDERED + MaxOverflow}

InitBuf ==
    /\ IdleScan
    /\ tcpIn = None /\ tcpOut = None
    /\ synPort = 0 /\ synPc = "idle" /\ synLast = None /\ synRxErr = FALSE
    /\ synOut = None
    /\ IdleUdp
    /\ IdleRate
    /\ IdleTypes /\ IdleStore
    /\ bufPorts \in BufPortCounts
    /\ bufConcurrency \in BufConcurrencies
    /\ bufQueued = bufPorts
    /\ bufWaiting = 0 /\ bufRunning = 0
    /\ bufPermits = bufConcurrency

BufAdmitUnbounded ==
    /\ bufQueued > 0
    /\ bufQueued' = bufQueued - 1
    /\ bufWaiting' = bufWaiting + 1
    /\ UNCHANGED <<bufPorts, bufConcurrency, bufRunning, bufPermits,
                   scanVars, tcpVars, synVars, udpVars, rlVars, typeVars, storeVars>>

\* buffer_unordered(1000) pulls the next port from stream::iter(ports)
\* while it holds fewer than 1000 tasks
BufAdmit ==
    /\ bufQueued > 0
    /\ bufWaiting + bufRunning < BUFFER_UNORDERED
    /\ bufQueued' = bufQueued - 1
    /\ bufWaiting' = bufWaiting + 1
    /\ UNCHANGED <<bufPorts, bufConcurrency, bufRunning, bufPermits,
                   scanVars, tcpVars, synVars, udpVars, rlVars, typeVars, storeVars>>

\* the stream has been refilled: buffer_unordered pulls from the iterator
\* before it polls the tasks it holds
BufFilled == bufQueued = 0 \/ bufWaiting + bufRunning >= BUFFER_UNORDERED

\* let _permit = sem.acquire().await.unwrap() of one task in the buffer
BufAcquire ==
    /\ BufFilled
    /\ bufWaiting > 0
    /\ bufPermits > 0
    /\ bufWaiting' = bufWaiting - 1
    /\ bufRunning' = bufRunning + 1
    /\ bufPermits' = bufPermits - 1
    /\ UNCHANGED <<bufPorts, bufConcurrency, bufQueued,
                   scanVars, tcpVars, synVars, udpVars, rlVars, typeVars, storeVars>>

\* scanner(port) of one task returns, the task ends and drops its permit
BufComplete ==
    /\ BufFilled
    /\ bufRunning > 0
    /\ bufRunning' = bufRunning - 1
    /\ bufPermits' = bufPermits + 1
    /\ UNCHANGED <<bufPorts, bufConcurrency, bufQueued, bufWaiting,
                   scanVars, tcpVars, synVars, udpVars, rlVars, typeVars, storeVars>>

NextBuf == BufAdmit \/ BufAcquire \/ BufComplete

SpecBuf == InitBuf /\ [][NextBuf]_vars

(***************************************************************************)
(* Properties of run_scan (Spec).                                          *)
(***************************************************************************)
Returned == pc = "returned" /\ ret = "Ok"

DistinctPorts == Cardinality(Range(config.ports))

\* C1: at every moment the number of probe tasks that hold a semaphore
\* permit and have not finished scan_port is at most the configured
\* concurrency.
C1_ConcurrencyCap == Cardinality(InFlight) <= config.concurrency

\* the cap binds: as many probes in flight as permits exist, one more waiting
C1_Witness ==
    /\ config.concurrency >= 1
    /\ Cardinality(InFlight) = config.concurrency
    /\ \E i \in Indices : task[i] = "waiting"

C3_NoPortFailsJob ==
    /\ pc # "panicked"
    /\ (pc = "returned" /\ ret \notin {"InvalidConfig", "InterfaceNotFound"}) =>
          /\ ret = "Ok"
          /\ Len(results) = Len(config.ports)
          /\ \A i \in Indices :
                Cardinality({k \in 1..Len(results) : results[k].port = config.ports[i]}) = 1

C5_JobCompletes == pc \in {"returned", "panicked"} \/ ENABLED Next

\* C6: the report holds every probe result except, when closed ports are not
\* retained, exactly those whose status is Closed.
C6_FilterExact ==
    Returned =>
        LET kept == {k \in 1..Len(results) :
                        config.show_closed \/ results[k].status # "Closed"}
        IN  /\ Len(report.results) = Cardinality(kept)
            /\ \A k \in kept : results[k] \in Range(report.results)
            /\ \A r \in Range(report.results) :
                  /\ r \in Range(results)
                  /\ ~config.show_closed => r.status # "Closed"

\* a Closed result dropped while a Filtered one is kept
C6_Witness ==
    /\ Returned
    /\ ~config.show_closed
    /\ \E k \in 1..Len(results) : results[k].status = "Closed"
    /\ \E k \in 1..Len(report.results) : report.results[k].status = "Filtered"

\* the configured interface name is the name of no interface of the host
NamesNoInterface ==
    /\ config.interface # None
    /\ \A k \in 1..Len(interfaces) : interfaces[k].name # config.interface[1]

\* no probe task has left the port iterator and no result exists
NothingProbed ==
    /\ \A i \in Indices : task[i] = "queued"
    /\ results = <<>>

\* run_scan has returned an Err
ReturnedErr == pc = "returned" /\ ret # "Ok"

\* C11 as stated: a SYN scan whose interface name matches no interface makes
\* run_scan return InterfaceNotFound with no port probed, whatever the
\* target; run_scan returns an error only when SynScanner::new failed.
C11_UnknownInterfaceAnyTarget ==
    /\ (pc # "start" /\ config.scan_type = "Syn" /\ NamesNoInterface) =>
          pc = "returned" /\ ret = "InterfaceNotFound" /\ NothingProbed
    /\ ReturnedErr =>
          /\ config.scan_type = "Syn"
          /\ ret = SynScannerNew(config.target, config.interface, interfaces)
          /\ NothingProbed

\* C11 amended: a SYN scan of an IPv4 target whose interface name matches no
\* interface makes run_scan return InterfaceNotFound with no port probed;
\* run_scan returns an error only when SynScanner::new failed, and then no
\* port was probed.
C11_UnknownInterface ==
    /\ (pc # "start" /\ config.scan_type = "Syn" /\ config.target = "v4"
           /\ NamesNoInterface) =>
          pc = "returned" /\ ret = "InterfaceNotFound" /\ NothingProbed
    /\ ReturnedErr =>
          /\ config.scan_type = "Syn"
          /\ ret = SynScannerNew(config.target, config.interface, interfaces)
          /\ NothingProbed

\* a SYN scan of an IPv4 target over the unknown interface wlan9 has returned
C11_Witness ==
    /\ pc = "returned"
    /\ ret = "InterfaceNotFound"
    /\ config.target = "v4"
    /\ config.interface = Some("wlan9")
    /\ Len(config.ports) >= 1

\* C12: a SYN scan of an IPv6 target ends in SynScanner::new with the
\* configuration error, whatever interface name is given and whether or not
\* an interface of that name exists; no port is probed.
C12_Ipv6Rejected ==
    (pc # "start" /\ config.scan_type = "Syn" /\ config.target = "v6") =>
        pc = "returned" /\ ret = "InvalidConfig" /\ NothingProbed

\* an IPv6 target was rejected although the named interface eth0 exists
C12_Witness ==
    /\ pc = "returned"
    /\ ret = "InvalidConfig"
    /\ config.target = "v6"
    /\ config.interface = Some("eth0")
    /\ ~NamesNoInterface
    /\ Len(config.ports) >= 1

\* C20: with a non-zero rate limit no probe task passes from the semaphore
\* straight into scan_port: between its admission and its scan_port call it
\* awaits the rate limiter and a token is consumed for it.
C20_LimiterBeforeScanPort ==
    [][config.rate_limit > 0 =>
          \A i \in Indices : ~(task[i] = "waiting" /\ task'[i] = "running")]_vars

\* C21: a probe task takes exactly one permit when it passes from
\* sem.acquire() into scanner(port) and gives it back when it completes,
\* whatever its result; so the permits available and the probes in flight
\* add up to the configured concurrency, and when run_scan has returned every
\* permit is available.
C21_PermitPerProbe ==
    /\ [](pc \in {"scanning", "returned", "panicked"} =>
             permits + Cardinality(InFlight) = config.concurrency)
    /\ [](pc = "returned" => permits = config.concurrency /\ InFlight = {})
    /\ [][\A i \in Indices :
             /\ (task[i] # "running" /\ task'[i] = "running") =>
                   task[i] = "waiting" /\ permits >= 1 /\ permits' = permits - 1
             /\ (task[i] # "done" /\ task'[i] = "done") =>
                   task[i] = "running" /\ permits' = permits + 1]_vars

\* a scan of two ports returned with every permit back, one probe having
\* ended Filtered and one Open
C21_Witness ==
    /\ pc = "returned" /\ ret = "Ok"
    /\ config.concurrency >= 1
    /\ permits = config.concurrency
    /\ \E k \in 1..Len(results) : results[k].status = "Filtered"
    /\ \E k \in 1..Len(results) : results[k].status = "Open"

\* probe tasks that have completed
Finished == {i \in Indices : task[i] = "done"}

\* C22: the completed count of the progress bar goes up by exactly one with
\* each probe that finishes and by nothing else, so it never goes down, and
\* it equals the number of ports when the scan has ended; what a finished
\* probe adds to the results, and the report made of them (statuses, order,
\* counts), are fixed by the probes' results alone, with the bar or without.
C22_ProgressObservational ==
    /\ [](progress.pos = IF progress.enabled THEN Cardinality(Finished) ELSE 0)
    /\ [][/\ progress'.pos >= progress.pos
          /\ progress.enabled =>
                progress'.pos - progress.pos = Cardinality(Finished' \ Finished)
          /\ \A i \in Finished' \ Finished :
                /\ Len(results') = Len(results) + 1
                /\ SubSeq(results', 1, Len(results)) = results
                /\ results'[Len(results')].port = config.ports[i]]_vars
    /\ []((pc = "returned" /\ ret = "Ok") =>
             /\ config.verbose => progress.pos = Len(config.ports)
             /\ report.results = sort_by_key_port(FilterResults(results, config.show_closed))
             /\ report.ports_scanned = Len(config.ports)
             /\ report.open_ports = CountStatus(report.results, {"Open", "OpenFiltered"})
             /\ report.closed_ports = CountStatus(report.results, {"Closed"})
             /\ report.filtered_ports = CountStatus(report.results, {"Filtered"}))

\* a scan of two ports with the progress bar returned; the last probe to
\* finish was not an open port, and the bar counts both
C22_Witness ==
    /\ pc = "returned" /\ ret = "Ok"
    /\ config.verbose /\ progress.enabled
    /\ Len(config.ports) = 2
    /\ progress.pos = 2
    /\ results[Len(results)].status # "Open"

\* C27: in the report of run_scan the three totals are counted on the result
\* list as it is after the filter: they add up to its length, closed_ports is
\* 0 when closed ports are not retained, and ports_scanned is the length of
\* the port list given, whatever the filter dropped.
C27_TotalsAfterFilter ==
    (pc = "returned" /\ ret = "Ok") =>
        /\ report.open_ports + report.closed_ports + report.filtered_ports
              = Len(report.results)
        /\ ~config.show_closed => report.closed_ports = 0
        /\ report.ports_scanned = Len(config.ports)
        /\ report.closed_ports =
              Cardinality({k \in 1..Len(report.results) :
                              report.results[k].status = "Closed"})
        /\ report.filtered_ports =
              Cardinality({k \in 1..Len(report.results) :
                              report.results[k].status = "Filtered"})

\* two ports scanned, the Closed result dropped by the filter: one result
\* left, counted once, closed_ports 0, ports_scanned 2
C27_Witness ==
    /\ pc = "returned" /\ ret = "Ok"
    /\ ~config.show_closed
    /\ Len(config.ports) = 2
    /\ \E k \in 1..Len(results) : results[k].status = "Closed"
    /\ Len(report.results) = 1
    /\ report.ports_scanned = 2
    /\ report.closed_ports = 0

(***************************************************************************)
(* Properties of TcpConnectScanner::scan_port (SpecTcp).                   *)
(***************************************************************************)
\* C7: whatever the connection outcome, the status TcpConnectScanner::scan_port
\* returns is Open, Closed or Filtered, never OpenFiltered.
C7_NeverOpenFiltered ==
    tcpOut # None => tcpOut[1].status \in {"Open", "Closed", "Filtered"}

\* the per-probe timeout expired and the call returned Filtered
C7_Witness ==
    /\ tcpOut # None
    /\ tcpIn[1].outcome.kind = "elapsed"
    /\ tcpOut[1].status = "Filtered"

\* C8: connection established -> Open; actively refused -> Closed; per-probe
\* timeout expired -> Filtered; host or network unreachable -> Filtered; any
\* other I/O failure -> Closed.
C8_Classification ==
    tcpOut # None =>
        LET o == tcpIn[1].outcome
        IN  tcpOut[1].status =
                CASE o.kind = "connected" -> "Open"
                  [] o.kind = "elapsed" -> "Filtered"
                  [] o.kind = "io" /\ o.err.errno = "ECONNREFUSED" -> "Closed"
                  [] o.kind = "io" /\ o.err.errno \in {"EHOSTUNREACH", "ENETUNREACH"}
                        -> "Filtered"
                  [] OTHER -> "Closed"

(***************************************************************************)
(* Properties of SynScanner::scan_port (SpecSyn).                          *)
(***************************************************************************)
\* the frame holds a whole TCP header where its IPv4 header length puts it
HasTcpHeader(f) == ETHERNET_HEADER_SIZE + f.ihl * 4 + TCP_HEADER_SIZE <= f.len

\* a frame from the target, protocol TCP, whose TCP source port is the probed port
Matches(f, port) ==
    HasTcpHeader(f) /\ f.src = "target" /\ f.proto = "tcp" /\ f.sport = port

\* C9: only a frame from the target, protocol TCP, with TCP source port p
\* classifies the probe of p, SYN+ACK as Open and RST as Closed; every other
\* frame is discarded and polling goes on; without such a frame the timeout
\* gives Filtered.
C9_Classification ==
    /\ synPc # "panicked"
    /\ (synLast # None /\ synLast[1].kind = "frame") =>
          LET f == synLast[1].frame
          IN  /\ ~Matches(f, synPort) => synPc = "poll" /\ synOut = None
              /\ (Matches(f, synPort) /\ {"SYN", "ACK"} \subseteq f.flags) =>
                    synOut # None /\ synOut[1].status = "Open"
              /\ synOut # None =>
                    /\ Matches(f, synPort)
                    /\ synOut[1].status = "Open" => {"SYN", "ACK"} \subseteq f.flags
                    /\ synOut[1].status = "Closed" => "RST" \in f.flags
                    /\ synOut[1].status \in {"Open", "Closed"}
              /\ (Matches(f, synPort) /\ "RST" \in f.flags
                     /\ ~({"SYN", "ACK"} \subseteq f.flags)) =>
                    synOut # None /\ synOut[1].status = "Closed"
    /\ (synLast # None /\ synLast[1].kind = "deadline") =>
          synOut # None /\ synOut[1].status = "Filtered"

\* a probe ended by a failure of send_syn_and_wait: the packet was not
\* built, the channel not opened, the frame not sent, or rx.next() returned
\* an error the loop does not ignore
SynFailed ==
    /\ synLast # None
    /\ \/ synLast[1].kind = "stage" /\ synLast[1].detail # "ok"
       \/ synLast[1].kind = "rx_err" /\ synLast[1].detail # "timed out"

\* C10 as stated: after any failure inside send_syn_and_wait, a receive
\* error included, the probe's result is Filtered, and no banner is attached.
C10_EveryFailureFiltered ==
    /\ (synLast # None /\ synLast[1].kind = "stage" /\ synLast[1].detail # "ok") =>
          synOut # None /\ synOut[1].status = "Filtered"
    /\ (synOut # None /\ synRxErr) => synOut[1].status = "Filtered"
    /\ synOut # None => synOut[1].banner = None

\* C10 amended: a failure that ends send_syn_and_wait gives a PortResult with
\* status Filtered; a receive error whose text holds "timed out" ends nothing,
\* polling goes on; no SYN result has a banner.
C10_FailureFiltered ==
    /\ SynFailed => synPc = "done" /\ synOut # None /\ synOut[1].status = "Filtered"
    /\ (synLast # None /\ synLast[1].kind = "rx_err" /\ synLast[1].detail = "timed out") =>
          synPc = "poll" /\ synOut = None
    /\ synOut # None => synOut[1].banner = None

\* the channel could not be opened and the probe returned Filtered
C10_Witness ==
    /\ SynFailed
    /\ synLast[1].detail = "PermissionDenied"
    /\ synOut # None /\ synOut[1].status = "Filtered"

\* C13: a permission failure of the raw channel is told apart from a
\* generic raw-socket failure up to the caller of scan_port: send_syn_and_wait
\* names it PermissionDenied, and what scan_port hands back for it differs
\* from what it hands back for a RawSocketError.
C13_PermissionDistinctionReachesCaller ==
    (synLast # None /\ synLast[1].kind = "stage"
        /\ synLast[1].detail = "PermissionDenied") =>
        /\ synOut # None
        /\ synOut[1] # SynScanPort(synPort, "RawSocketError")

\* a frame that parse_response takes for the probed port and that holds
\* neither SYN+ACK nor RST
UnclassifyingMatch(f) ==
    /\ Matches(f, synPort)
    /\ ~({"SYN", "ACK"} \subseteq f.flags)
    /\ "RST" \notin f.flags

\* C29: a matching frame with SYN, ACK and RST all set gives Open; a
\* matching frame with neither SYN+ACK nor RST gives no result, and from
\* there the probe keeps polling until a frame classifies the port or the
\* probe ends Filtered without one (the timeout; a receive error that ends
\* the loop is counted with it).
C29_SynAckBeforeRst ==
    /\ []((synLast # None /\ synLast[1].kind = "frame"
             /\ Matches(synLast[1].frame, synPort)
             /\ synLast[1].frame.flags = {"SYN", "ACK", "RST"}) =>
            synOut # None /\ synOut[1].status = "Open")
    /\ []((synLast # None /\ synLast[1].kind = "frame"
             /\ UnclassifyingMatch(synLast[1].frame)) =>
            synPc = "poll" /\ synOut = None)
    /\ [][(synLast # None /\ synLast[1].kind = "frame"
             /\ UnclassifyingMatch(synLast[1].frame) /\ synPc' # "poll") =>
            /\ synPc' = "done" /\ synOut' # None
            /\ \/ /\ synLast'[1].kind = "frame"
                  /\ Matches(synLast'[1].frame, synPort)
                  /\ synOut'[1].status \in {"Open", "Closed"}
               \/ /\ synLast'[1].kind \in {"deadline", "rx_err"}
                  /\ synOut'[1].status = "Filtered"]_vars

\* the part of C29 that the unchecked slice does not reach: the precedence
\* of SYN+ACK, no result on a frame without SYN+ACK and RST, and polling
\* that ends, when it ends without a panic, with a classifying frame or
\* with Filtered
C29_UpToPanic ==
    /\ []((synLast # None /\ synLast[1].kind = "frame"
             /\ Matches(synLast[1].frame, synPort)
             /\ synLast[1].frame.flags = {"SYN", "ACK", "RST"}) =>
            synOut # None /\ synOut[1].status = "Open")
    /\ []((synLast # None /\ synLast[1].kind = "frame"
             /\ UnclassifyingMatch(synLast[1].frame)) =>
            synPc = "poll" /\ synOut = None)
    /\ [][(synLast # None /\ synLast[1].kind = "frame"
             /\ UnclassifyingMatch(synLast[1].frame) /\ synPc' = "done") =>
            /\ synOut' # None
            /\ \/ /\ synLast'[1].kind = "frame"
                  /\ Matches(synLast'[1].frame, synPort)
                  /\ synOut'[1].status \in {"Open", "Closed"}
               \/ /\ synLast'[1].kind \in {"deadline", "rx_err"}
                  /\ synOut'[1].status = "Filtered"]_vars

(***************************************************************************)
(* Properties of UdpScanner::scan_port (SpecUdp).                          *)
(***************************************************************************)
\* every probe sent so far left socket.send without error, and every wait
\* for a reply so far has timed out, and there was at least one
UdpAllTimedOut ==
    /\ udpLog # <<>>
    /\ \A k \in 1..Len(udpLog) : udpLog[k].kind = "elapsed"
    /\ ~(udpPc = "done" /\ udpSent > Len(udpLog))

\* C14: when every probe goes out and every wait for a reply times out, the
\* probe is sent the fixed number of times (2: the first send and one
\* repeat), with the same fixed delay between consecutive attempts and none
\* after the last, and the port is then classified OpenFiltered; before the
\* last attempt has timed out nothing is returned.
C14_TimeoutsGiveOpenFiltered ==
    UdpAllTimedOut =>
        /\ udpOut = None => Len(udpLog) < UdpRetries
        /\ udpOut # None =>
              /\ udpOut[1].status = "OpenFiltered"
              /\ udpSent = UdpRetries
              /\ Len(udpLog) = UdpRetries
              /\ udpDelays = [k \in 1..(UdpRetries - 1) |-> UdpRetryDelayMs]

\* both attempts timed out, one delay lay between them, OpenFiltered returned
C14_Witness ==
    /\ UdpAllTimedOut
    /\ udpPc = "done"
    /\ udpSent = 2
    /\ Len(udpDelays) = 1
    /\ udpOut # None /\ udpOut[1].status = "OpenFiltered"

\* C15: a reply with payload bytes on any attempt gives Open; a refused or
\* unreachable signal read as a socket error on any attempt gives Closed; a
\* timeout on an attempt classifies nothing, the next attempt follows (after
\* the last one the loop ends with OpenFiltered; a later send that fails
\* ends the probe on its own).
C15_UdpClassification ==
    udpLog # <<>> =>
        LET o == udpLog[Len(udpLog)]
        IN  /\ o.kind = "data" => udpOut # None /\ udpOut[1].status = "Open"
            /\ (o.kind = "io"
                  /\ o.err.errno \in {"ECONNREFUSED", "EHOSTUNREACH", "ENETUNREACH"}) =>
                  udpOut # None /\ udpOut[1].status = "Closed"
            /\ o.kind = "elapsed" =>
                  IF Len(udpLog) < UdpRetries
                  THEN \/ udpOut = None /\ udpPc \in {"sleep", "send", "recv"}
                       \/ udpPc = "done" /\ udpSent > Len(udpLog)
                  ELSE udpOut # None /\ udpOut[1].status = "OpenFiltered"

\* a reply that does not classify the port other than a timeout: zero bytes,
\* or a socket error that is neither a refusal nor an unreachable host or
\* network
UdpUnclassifying(o) ==
    \/ o.kind = "empty"
    \/ /\ o.kind = "io"
       /\ o.err.errno \notin {"ECONNREFUSED", "EHOSTUNREACH", "ENETUNREACH"}

\* C28: a receive of zero bytes, or a receive error that is neither refused
\* nor unreachable, classifies nothing: the loop goes on as after a timeout
\* (the delay and the next send, or after the last attempt OpenFiltered);
\* when no attempt classified the port the result is OpenFiltered; a failure
\* of bind, connect or send ends the probe at once with Filtered; at most
\* 2 datagrams are sent.
C28_UdpNoVerdictAndFailures ==
    /\ udpSent <= 2
    /\ (udpLog # <<>> /\ UdpUnclassifying(udpLog[Len(udpLog)])) =>
          IF Len(udpLog) < UdpRetries
          THEN \/ udpOut = None /\ udpPc \in {"sleep", "send", "recv"}
               \/ udpPc = "done" /\ udpSent > Len(udpLog)
          ELSE udpOut # None /\ udpOut[1].status = "OpenFiltered"
    /\ (udpPc = "done" /\ udpSent = Len(udpLog) /\ Len(udpLog) = UdpRetries
           /\ \A k \in 1..Len(udpLog) :
                 UdpUnclassifying(udpLog[k]) \/ udpLog[k].kind = "elapsed") =>
          udpOut # None /\ udpOut[1].status = "OpenFiltered"
    /\ (udpPc = "done" /\ udpSent > Len(udpLog)) =>
          udpOut # None /\ udpOut[1].status = "Filtered"
    /\ (udpPc = "done" /\ udpSent = 0) =>
          udpOut # None /\ udpOut[1].status = "Filtered" /\ udpLog = <<>>
    /\ [][(udpPc \in {"start", "send"} /\ udpPc' = "done" /\ UdpRetries > 0) =>
             /\ udpOut' # None /\ udpOut'[1].status = "Filtered"
             /\ udpLog' = udpLog /\ udpDelays' = udpDelays]_vars

\* the first receive returned zero bytes, the loop slept and sent again, and
\* that second send failed: Filtered after 2 datagrams
C28_Witness ==
    /\ udpPc = "done"
    /\ Len(udpLog) = 1 /\ udpLog[1].kind = "empty"
    /\ udpDelays = <<UdpRetryDelayMs>>
    /\ udpSent = 2
    /\ udpOut # None /\ udpOut[1].status = "Filtered"

(***************************************************************************)
(* Properties of RateLimiter (SpecRate, SpecRateFair).                     *)
(***************************************************************************)
RECURSIVE Acquired(_, _)
\* acquisitions that completed at the ticks a..b, through whatever handle
Acquired(a, b) == IF a > b THEN 0 ELSE rlAcq[a] + Acquired(a + 1, b)

\* C16: a limiter of rate N per second and burst B: in every window of T
\* seconds the acquisitions that complete through wait and succeed through
\* try_acquire, over all handles cloned from it and all tasks, number at
\* most N*T + B.  (A second is N replenish intervals.)
C16_RateBound ==
    rlState = "ready" =>
        \A a \in 0..(MaxTicks - 1), T \in 0..MaxTicks :
            a + rlQuota.rate * T <= MaxTicks - 1 =>
                Acquired(a, a + rlQuota.rate * T) <= rlQuota.rate * T + rlQuota.burst

\* two tasks share one limiter, the clone's call got a cell, and a window of
\* at least one second is used up to the bound
C16_Witness ==
    /\ rlState = "ready"
    /\ rlCell[1] = 1 /\ rlCell[2] = 1
    /\ rlLast.caller = 2 /\ rlLast.ok
    /\ \E T \in 1..MaxTicks :
          /\ rlQuota.rate * T <= MaxTicks - 1
          /\ Acquired(0, rlQuota.rate * T) = rlQuota.rate * T + rlQuota.burst

\* C17: try_acquire returns true exactly when the limiter holds a cell, and
\* then takes one; otherwise it returns false and changes nothing of the
\* limiter; it never suspends its caller; the first try_acquire on a limiter
\* that has served no call yet returns true.
C17_TryAcquire ==
    /\ [](rlLast.op = "try_acquire" =>
             /\ rlLast.ok <=> rlLast.tokens >= 1
             /\ rlPc[rlLast.caller] = "idle")
    /\ [][(rlLast' # rlLast /\ rlLast'.op = "try_acquire") =>
             LET k == rlCell[rlLast'.caller]
             IN  /\ rlLast'.tokens = rlCredit[k]
                 /\ rlCredit' = IF rlLast'.ok THEN [rlCredit EXCEPT ![k] = @ - 1]
                                 ELSE rlCredit
                 /\ rlPc' = rlPc]_vars
    /\ [][(rlLast.op = "new" /\ rlLast'.op = "try_acquire") => rlLast'.ok]_vars

\* try_acquire on an empty bucket returned false and the bucket is still empty
C17_Witness ==
    /\ rlLast.op = "try_acquire"
    /\ ~rlLast.ok
    /\ rlCell[rlLast.caller] # 0
    /\ rlCredit[rlCell[rlLast.caller]] = 0

\* C18: RateLimiter::new(0), with_burst(0, b) and with_burst(r, 0) produce
\* no limiter, and no limiter has rate 0 or burst 0.
C18_ZeroRateRejected ==
    /\ (rlState \notin {"idle", "new"} /\ rlArgs.rate = 0) =>
          rlState = "panicked" /\ LiveCells = {}
    /\ (rlState \notin {"idle", "new"} /\ rlArgs.ctor = "with_burst"
           /\ rlArgs.burst = 0) =>
          rlState = "panicked" /\ LiveCells = {}
    /\ rlState = "ready" => rlQuota.rate > 0 /\ rlQuota.burst > 0

\* RateLimiter::new(0) panicked
C18_Witness ==
    /\ rlState = "panicked"
    /\ rlArgs = [ctor |-> "new", rate |-> 0, burst |-> 0]

\* wait suspends only when the limiter holds no cell, and returns only by
\* taking exactly one cell that the limiter holds
WaitTakesOneCell ==
    /\ [][\A c \in Callers :
             (rlPc[c] = "idle" /\ rlPc'[c] = "waiting") =>
                 rlCredit[rlCell[c]] = 0 /\ rlCredit' = rlCredit]_vars
    /\ [][\A c \in Callers :
             (rlPc[c] = "waiting" /\ rlPc'[c] = "idle") =>
                 /\ rlCredit[rlCell[c]] >= 1
                 /\ rlCredit' = [rlCredit EXCEPT ![rlCell[c]] = @ - 1]]_vars
    /\ [][(rlLast' # rlLast /\ rlLast'.op = "wait" /\ rlLast'.ok) =>
             LET k == rlCell[rlLast'.caller]
             IN  /\ rlCredit[k] >= 1
                 /\ rlCredit' = [rlCredit EXCEPT ![k] = @ - 1]]_vars

\* C19 as stated: wait suspends until a cell is there and then takes exactly
\* one, and concurrent waiters are served fairly: every task suspended in
\* wait eventually returns from it.
C19_EveryWaiterReturns ==
    /\ WaitTakesOneCell
    /\ \A c \in Callers : (rlPc[c] = "waiting") ~> (rlPc[c] = "idle")

\* a step in which a task other than c takes a cell of the limiter c waits on
Overtaken(c) ==
    /\ rlCell[c] # 0
    /\ rlLast'.caller \notin {0, c}
    /\ rlLast'.ok
    /\ rlCredit'[rlCell[c]] < rlCredit[rlCell[c]]

\* C19 amended: wait suspends until a cell is there and then takes exactly
\* one; waiters are not queued, so which of them gets a regained cell is not
\* determined, and a task stays suspended in wait for ever only if other
\* tasks take cells of the limiter again and again.
C19_WaitTakesOneToken ==
    /\ WaitTakesOneCell
    /\ \A c \in Callers :
          <>[](rlPc[c] = "waiting") => []<><<Overtaken(c)>>_vars

\* one task is still suspended in wait while the wait of another returned
\* with the only cell
C19_Witness ==
    /\ rlLast.op = "wait" /\ rlLast.ok /\ rlLast.tokens = 1
    /\ \E d \in Callers \ {rlLast.caller} :
          rlPc[d] = "waiting" /\ rlCell[d] = rlCell[rlLast.caller]

(***************************************************************************)
(* Properties of Port and PortSpec (SpecTypes).                            *)
(***************************************************************************)
\* a call of a constructor or conversion of Port has returned
PortReturned == tyIn # None /\ tyOut # None /\ tyIn[1].op \in PortOps

\* C23: every Port that Port::new, Port::new_unchecked, TryFrom<u16> or
\* deserialization gives holds a number from 1 to 65535; each of them rejects
\* 0; and no method changes the number a Port holds.
C23_PortAlwaysValid ==
    /\ []((PortReturned /\ tyOut[1].ok) =>
             tyOut[1].value >= 1 /\ tyOut[1].value <= 65535)
    /\ []((PortReturned /\ tyIn[1].arg = 0) => ~tyOut[1].ok)
    /\ [][(tyOut # None /\ tyOut' # None) =>
             tyOut'[1].ok = tyOut[1].ok /\ tyOut'[1].value = tyOut[1].value]_vars

\* the ports the ranges of a specification cover
Covered(parts) == UNION {pr[1]..pr[2] : pr \in Range(parts)}

\* C24: whatever single ports and ranges were added to a PortSpec, to_ports
\* returns the ports they cover, each once, in strictly ascending order, and
\* count is their number; the same holds for the list parse_ports returns
\* for a string it accepts.
C24_OrderedDeduplicated ==
    (tyIn # None /\ tyOut # None /\ tyIn[1].op \in {"to_ports", "parse_ports"}) =>
        LET ports == tyOut[1].ports
        IN  /\ \A k \in 1..(Len(ports) - 1) : ports[k] < ports[k + 1]
            /\ Range(ports) = Covered(tyIn[1].parts)
            /\ tyOut[1].count = Cardinality(Covered(tyIn[1].parts))
            /\ tyOut[1].count = Len(ports)

\* a specification of two overlapping parts given out of order: the range
\* 1-2 after the single port 2
C24_Witness ==
    /\ tyIn # None /\ tyOut # None
    /\ tyIn[1].op = "to_ports"
    /\ tyIn[1].parts = <<(<<2, 2>>), (<<1, 2>>)>>
    /\ tyOut[1].ports = <<1, 2>>
    /\ tyOut[1].count = 2

(***************************************************************************)
(* Properties of ScanRecord (SpecStore).                                   *)
(***************************************************************************)
\* C25: a ScanRecord written to JSON and read back is read without error and
\* has the same target, the same four totals, the same duration and the same
\* results in the same order, with every status and with banner and response
\* time absent where they were absent.
C25_JsonRoundTrip ==
    recBack # None =>
        /\ recBack[1].ok
        /\ recBack[1].rec.target = recOut[1].target
        /\ recBack[1].rec.ports_scanned = recOut[1].ports_scanned
        /\ recBack[1].rec.open_ports = recOut[1].open_ports
        /\ recBack[1].rec.closed_ports = recOut[1].closed_ports
        /\ recBack[1].rec.filtered_ports = recOut[1].filtered_ports
        /\ recBack[1].rec.duration_ms = recOut[1].duration_ms
        /\ Len(recBack[1].rec.results) = Len(recOut[1].results)
        /\ \A k \in 1..Len(recOut[1].results) :
              recBack[1].rec.results[k] = recOut[1].results[k]

\* a record read back whose first result is open|filtered without banner and
\* response time and whose second is an open port with both
C25_Witness ==
    /\ recBack # None /\ recBack[1].ok
    /\ Len(recOut[1].results) = 2
    /\ recOut[1].results[1].status = "OpenFiltered"
    /\ recOut[1].results[1].banner = None
    /\ recOut[1].results[1].response_time_ms = None
    /\ "banner" \notin recJson[1].results[1].keys
    /\ recJson[1].results[1].status = "open|filtered"
    /\ recOut[1].results[2].banner # None
    /\ recOut[1].results[2].response_time_ms # None
    /\ recBack[1].rec.results = recOut[1].results

\* C26: finalize on a fresh record: ports_scanned is the number of results
\* given; open_ports counts those with status Open or OpenFiltered,
\* closed_ports those with Closed, filtered_ports those with Filtered; the
\* three add up to ports_scanned; the results are stored in the order given.
C26_FinalizeTotals ==
    recOut # None =>
        LET rs == recIn[1].results
            With(sts) == Cardinality({k \in 1..Len(rs) : rs[k].status \in sts})
        IN  /\ recOut[1].ports_scanned = Len(rs)
            /\ recOut[1].open_ports = With({"Open", "OpenFiltered"})
            /\ recOut[1].closed_ports = With({"Closed"})
            /\ recOut[1].filtered_ports = With({"Filtered"})
            /\ recOut[1].open_ports + recOut[1].closed_ports
                  + recOut[1].filtered_ports = recOut[1].ports_scanned
            /\ recOut[1].results = rs
            /\ recOut[1].duration_ms = recIn[1].duration_ms

\* a record finalized with an open|filtered result for port 2 followed by a
\* closed one for port 1
C26_Witness ==
    /\ recOut # None
    /\ Len(recIn[1].results) = 2
    /\ recIn[1].results[1].status = "OpenFiltered" /\ recIn[1].results[1].port = 2
    /\ recIn[1].results[2].status = "Closed" /\ recIn[1].results[2].port = 1
    /\ recOut[1].open_ports = 1 /\ recOut[1].closed_ports = 1
    /\ recOut[1].results = recIn[1].results

====
